---- MODULE Spec2Model ----
(***************************************************************************)
(* A model of prismic-httpx: the connection layer (connection.get_json),   *)
(* the caches it talks to, the Api object and the SearchForm builder       *)
(* (api.py).                                                               *)
(*                                                                         *)
(* Python values are records [ty, s, n, items]: ty is the Python type, s   *)
(* the text str() gives, n the number of an int/bool, items the elements   *)
(* of a list or the (key, value) pairs of a dict in insertion order.       *)
(***************************************************************************)
EXTENDS Integers, Sequences, FiniteSets, TLC

\* ------------------------------------------------------------------ bounds
MaxTime == 3
MaxEntries == 1
MaxRefs == 2
MaxCalls == 3
MaxCookieLen == 4
MaxPredicates == 3
MaxQueries == 1
MaxBlocks == 4
MaxSpans == 2
MaxFields == 3
MaxClients == 3
MaxTasks == 2

\* ------------------------------------------------------- Python values
Digit == <<"0", "1", "2", "3", "4", "5", "6", "7", "8", "9">>

RECURSIVE DecText(_)
DecText(k) == IF k < 10 THEN Digit[k + 1]
              ELSE DecText(k \div 10) \o Digit[(k % 10) + 1]

None == [ty |-> "none", s |-> "None", n |-> 0, items |-> <<>>]
StrV(x) == [ty |-> "str", s |-> x, n |-> 0, items |-> <<>>]
IntV(k) == [ty |-> "int", s |-> DecText(k), n |-> k, items |-> <<>>]
\* a float with one decimal, given in tenths; s is str(x), which always shows
\* a decimal point
FloatV(tenths) ==
    [ty |-> "float",
     s |-> DecText(tenths \div 10) \o "." \o DecText(tenths % 10),
     n |-> tenths, items |-> <<>>]
BoolV(b) == [ty |-> "bool", s |-> IF b THEN "True" ELSE "False",
             n |-> IF b THEN 1 ELSE 0, items |-> <<>>]
ListV(xs) == [ty |-> "list", s |-> "", n |-> 0, items |-> xs]
DictV(kvs) == [ty |-> "dict", s |-> "", n |-> 0, items |-> kvs]
KV(key, val) == [k |-> key, v |-> val]
EmptyDict == DictV(<<>>)

\* bool(v) as Python's `if v`, `not v`, `a or b` take it
Truthy(v) ==
    CASE v.ty = "none" -> FALSE
      [] v.ty = "str" -> v.s # ""
      [] v.ty \in {"int", "bool", "float"} -> v.n # 0
      [] v.ty \in {"list", "dict"} -> Len(v.items) > 0
      [] OTHER -> TRUE

PyOr(a, b) == IF Truthy(a) THEN a ELSE b

PyStr(v) == v.s

DictHas(d, key) == \E i \in 1..Len(d.items) : d.items[i].k = key

DictGet(d, key) ==
    IF DictHas(d, key)
    THEN d.items[CHOOSE i \in 1..Len(d.items) : d.items[i].k = key].v
    ELSE None

\* dict.update({key: val}) / d[key] = val: an existing key keeps its place
DictUpdate(d, key, val) ==
    IF DictHas(d, key)
    THEN DictV([i \in 1..Len(d.items) |->
                  IF d.items[i].k = key THEN KV(key, val) ELSE d.items[i]])
    ELSE DictV(Append(d.items, KV(key, val)))

DictLen(d) == Len(d.items)

\* ------------------------------------------------------------ urlencode
\* urllib.parse.quote_plus on the texts the model uses
QuotePlus(t) ==
    CASE t = "[[x]]" ->
            "%5B%5Bx%5D%5D"
      [] t = "[[y]]" ->
            "%5B%5By%5D%5D"
      [] t = "http://repo/previews/tok" ->
            "http%3A%2F%2Frepo%2Fpreviews%2Ftok"
      [] t = "[[:d = at(my.a.t, 3)]]" ->
            "%5B%5B%3Ad+%3D+at%28my.a.t%2C+3%29%5D%5D"
      [] t = "[[:d = any(document.type, [\"a\", \"b\"])]]" ->
            "%5B%5B%3Ad+%3D+any%28document.type%2C+%5B%22a%22%2C+%22b%22%5D%29%5D%5D"
      [] t = "[[:d = at(my.a.uid, \"u\")]]" ->
            "%5B%5B%3Ad+%3D+at%28my.a.uid%2C+%22u%22%29%5D%5D"
      [] t = "[[:d = at(document.id, \"d1\")]]" ->
            "%5B%5B%3Ad+%3D+at%28document.id%2C+%22d1%22%29%5D%5D"
      [] t = "[[:d = in(document.id, [\"d1\", \"d2\"])]]" ->
            "%5B%5B%3Ad+%3D+in%28document.id%2C+%5B%22d1%22%2C+%22d2%22%5D%29%5D%5D"
      [] t = "[[:d = at(document.type, \"page\")]]" ->
            "%5B%5B%3Ad+%3D+at%28document.type%2C+%22page%22%29%5D%5D"
      [] OTHER -> t

RECURSIVE JoinAmp(_)
JoinAmp(parts) ==
    IF Len(parts) = 0 THEN ""
    ELSE IF Len(parts) = 1 THEN parts[1]
    ELSE parts[1] \o "&" \o JoinAmp(Tail(parts))

RECURSIVE EncodeItems(_, _)
EncodeItems(key, xs) ==
    IF Len(xs) = 0 THEN <<>>
    ELSE <<QuotePlus(key) \o "=" \o QuotePlus(PyStr(xs[1]))>>
         \o EncodeItems(key, Tail(xs))

RECURSIVE EncodePairs(_)
EncodePairs(kvs) ==
    IF Len(kvs) = 0 THEN <<>>
    ELSE (IF kvs[1].v.ty = "list"
          THEN EncodeItems(kvs[1].k, kvs[1].v.items)
          ELSE <<QuotePlus(kvs[1].k) \o "=" \o QuotePlus(PyStr(kvs[1].v))>>)
         \o EncodePairs(Tail(kvs))

\* urlparse.urlencode(full_params, doseq=True)
urlencode(d) == JoinAmp(EncodePairs(d.items))

\* --------------------------------------------------------------- caches
\* The in-memory cache: key -> [value, expire], expire an absolute time.
EmptyStore == [key \in {} |-> [value |-> None, expire |-> 0]]

Expired(st, key, t) == key \in DOMAIN st /\ t > st[key].expire

MemoryGet(st, key, t) ==
    IF key \in DOMAIN st /\ ~Expired(st, key, t) THEN st[key].value ELSE None

\* the store after a get: an expired entry is evicted
MemoryGetStore(st, key, t) ==
    IF Expired(st, key, t)
    THEN [q \in (DOMAIN st) \ {key} |-> st[q]]
    ELSE st

\* faulty variant: set keeps an entry that is already there
MemorySet_KeepsOld(st, key, value, ttl, t) ==
    [q \in (DOMAIN st) \cup {key} |->
        IF q \in DOMAIN st THEN st[q]
        ELSE [value |-> value, expire |-> t + ttl]]

MemorySet(st, key, value, ttl, t) ==
    [q \in (DOMAIN st) \cup {key} |->
        IF q = key THEN [value |-> value, expire |-> t + ttl] ELSE st[q]]

NoCacheGet(st, key, t) == None

NoCacheSet(st, key, value, ttl, t) == st

CacheKinds == {"NoCache", "Memory"}

CacheGet(cache, st, key, t) ==
    IF cache = "Memory" THEN MemoryGet(st, key, t) ELSE NoCacheGet(st, key, t)

CacheGetStore(cache, st, key, t) ==
    IF cache = "Memory" THEN MemoryGetStore(st, key, t) ELSE st

CacheSet(cache, st, key, value, ttl, t) ==
    IF cache = "Memory" THEN MemorySet(st, key, value, ttl, t)
    ELSE NoCacheSet(st, key, value, ttl, t)

\* ----------------------------------------------------------- connection
\* A header value is held as its lexical tokens: "max-age=" and one token
\* per following character.
HeaderV(tokens) == [ty |-> "str", s |-> "", n |-> 0, items |-> tokens]

IsDigit(c) == \E i \in 1..10 : Digit[i] = c

DigitVal(c) == (CHOOSE i \in 1..10 : Digit[i] = c) - 1

\* the longest run of digits at the front of toks, as (\d+) takes it
RECURSIVE DigitRun(_)
DigitRun(toks) ==
    IF Len(toks) > 0 /\ IsDigit(toks[1])
    THEN <<toks[1]>> \o DigitRun(Tail(toks))
    ELSE <<>>

RECURSIVE ParseInt(_, _)
ParseInt(digits, acc) ==
    IF Len(digits) = 0 THEN acc
    ELSE ParseInt(Tail(digits), acc * 10 + DigitVal(digits[1]))

get_max_age(headers) ==
    LET expire_header == DictGet(headers, "Cache-Control")
    IN IF expire_header # None
          /\ Len(expire_header.items) >= 2
          /\ expire_header.items[1] = "max-age="
          /\ IsDigit(expire_header.items[2])
       THEN IntV(ParseInt(DigitRun(Tail(expire_header.items)), 0))
       ELSE None

Returned(v) == [kind |-> "return", value |-> v, exc |-> "", args |-> <<>>]
Raised(e, a) == [kind |-> "raise", value |-> None, exc |-> e, args |-> a]

InvalidURLRaised == [status |-> 0, json |-> None, text |-> "",
                     headers |-> EmptyDict]

\* faulty variant: the fallback is a cache that keeps what it is given
ResolveCache_Keeps(cache) == IF cache = "None" THEN "Memory" ELSE cache

\* `if cache is None: cache = NoCache()`; "None" is the argument left out
ResolveCache(cache) == IF cache = "None" THEN "NoCache" ELSE cache

\* faulty variant: the access token is left out of the parameters
FullParams_NoToken(params, access_token) ==
    IF params = None THEN EmptyDict ELSE params

\* full_params: a copy of params with access_token put in when it is given
FullParams(params, access_token) ==
    LET p0 == IF params = None THEN EmptyDict ELSE params
    IN IF access_token # None
       THEN DictUpdate(p0, "access_token", access_token)
       ELSE p0

FullUrl(url, full_params) ==
    IF DictLen(full_params) = 0 THEN url
    ELSE url \o "?" \o urlencode(full_params)

\* faulty variant: `if cached:`
CacheHit_Truthy(cached) == Truthy(cached)

\* `if cached is not None: return cached`
CacheHit(cached) == cached # None

\* `expire = ttl or get_max_age(headers)`
ExpireOf(ttl, headers) == PyOr(ttl, get_max_age(headers))

\* `if expire is not None: await cache.set(full_url, json_result, expire)`
StoreOn200(the_cache, st, full_url, json_result, expire, t) ==
    IF expire # None
    THEN CacheSet(the_cache, st, full_url, json_result, expire.n, t)
    ELSE st

\* the 401 branch; len(None) is a TypeError
On401(access_token) ==
    IF access_token.ty # "str" THEN Raised("TypeError", <<>>)
    ELSE IF access_token.s = "" THEN Raised("AuthorizationNeededError", <<>>)
    ELSE Raised("InvalidTokenError", <<>>)

\* faulty variant: the body text is dropped
OnOtherStatus_NoText(status_code, text) ==
    Raised("HTTPError", <<IntV(status_code), StrV("")>>)

\* the final else branch: HTTPError(status_code, str(result.text))
OnOtherStatus(status_code, text) ==
    Raised("HTTPError", <<IntV(status_code), StrV(text)>>)

\* faulty variant: a request that failed is made a second time
Attempts_Retry(full_url, net) ==
    IF net = InvalidURLRaised \/ net.status # 200
    THEN <<full_url, full_url>>
    ELSE <<full_url>>

\* the calls of client.get one get_json makes once the cache has missed:
\* `await get_using_client(full_url, client)`, once, whatever net does
Attempts(full_url, net) == <<full_url>>

\* faulty variant: access_token is written into the caller's dict
ParamsAfter_Shared(params, access_token) ==
    IF params # None /\ access_token # None
    THEN DictUpdate(params, "access_token", access_token)
    ELSE params

\* the caller's params once get_json has built full_params: it writes to
\* `params.copy()`, so the dict it was handed stays as it was
ParamsAfter(params, access_token) == params

\* get_json(url, params, access_token, cache, ttl) run against the store st
\* at time t, with net what client.get does when it is called: a response,
\* or InvalidURLRaised.  reqs lists the URLs client.get was called with.
get_json(url, params, access_token, cache, ttl, st, t, net) ==
    LET the_cache == ResolveCache(cache)
        full_url == FullUrl(url, FullParams(params, access_token))
        cached == CacheGet(the_cache, st, full_url, t)
        st1 == CacheGetStore(the_cache, st, full_url, t)
        expire == ExpireOf(ttl, net.headers)
    IN IF CacheHit(cached)
       THEN [out |-> Returned(cached), store |-> st1, reqs |-> <<>>,
             full_url |-> full_url, expire |-> None]
       ELSE IF net = InvalidURLRaised
       THEN [out |-> Raised("InvalidURLError", <<>>), store |-> st1,
             reqs |-> Attempts(full_url, net), full_url |-> full_url, expire |-> None]
       ELSE IF net.status = 200
       THEN [out |-> Returned(net.json),
             store |-> StoreOn200(the_cache, st1, full_url, net.json,
                                  expire, t),
             reqs |-> Attempts(full_url, net), full_url |-> full_url, expire |-> expire]
       ELSE IF net.status = 401
       THEN [out |-> On401(access_token), store |-> st1,
             reqs |-> Attempts(full_url, net), full_url |-> full_url, expire |-> None]
       ELSE [out |-> OnOtherStatus(net.status, net.text), store |-> st1,
             reqs |-> Attempts(full_url, net), full_url |-> full_url, expire |-> None]

\* ---------------------------------------- get_json at its await points
\* A call of get_json under way: pc is the await it is suspended at
\* ("lookup" cache.get, "request" get_using_client, "store" cache.set) or
\* "done"; wrote tells whether the call has changed what the cache holds.
NoNet == [status |-> -1, json |-> None, text |-> "", headers |-> EmptyDict]

\* lines 47-54: the full URL is built and cache.get(full_url) awaited
Started(c) ==
    [call |-> c, pc |-> "lookup",
     full_url |-> FullUrl(c.url, FullParams(c.params, c.access_token)),
     cached |-> None, net |-> NoNet, json_result |-> None, expire |-> None,
     out |-> Returned(None), wrote |-> FALSE]

\* what the cache holds for a reader at time t: the entries not yet expired
Live(st, t) ==
    [key \in {q \in DOMAIN st : ~Expired(st, q, t)} |-> st[key]]

\* lines 55-59: `if cached is not None: return cached`, else the GET is
\* sent; st1 is the store the lookup left
AfterLookup(task, cached, st, st1, t) ==
    IF CacheHit(cached)
    THEN [task EXCEPT !.pc = "done", !.cached = cached,
                      !.out = Returned(cached),
                      !.wrote = Live(st, t) # Live(st1, t)]
    ELSE [task EXCEPT !.pc = "request",
                      !.wrote = Live(st, t) # Live(st1, t)]

\* faulty variant: the body of an error response is put in the cache too
AfterResponse_StoresErrors(task, net) ==
    IF net = InvalidURLRaised
    THEN [task EXCEPT !.pc = "done", !.net = net,
                      !.out = Raised("InvalidURLError", <<>>)]
    ELSE [task EXCEPT !.pc = "store", !.net = net,
                      !.json_result = net.json, !.expire = IntV(2),
                      !.out = IF net.status = 200 THEN Returned(net.json)
                              ELSE OnOtherStatus(net.status, net.text)]

\* lines 59-74: what get_json does with the answer net of its GET
AfterResponse(task, net) ==
    IF net = InvalidURLRaised
    THEN [task EXCEPT !.pc = "done", !.net = net,
                      !.out = Raised("InvalidURLError", <<>>)]
    ELSE IF net.status = 200
    THEN LET expire == ExpireOf(task.call.ttl, net.headers)
         IN [task EXCEPT !.pc = IF expire # None THEN "store" ELSE "done",
                         !.net = net, !.json_result = net.json,
                         !.expire = expire, !.out = Returned(net.json)]
    ELSE IF net.status = 401
    THEN [task EXCEPT !.pc = "done", !.net = net,
                      !.out = On401(task.call.access_token)]
    ELSE [task EXCEPT !.pc = "done", !.net = net,
                      !.out = OnOtherStatus(net.status, net.text)]

\* lines 64-65: cache.set has been awaited, `return json_result`
AfterStore(task) == [task EXCEPT !.pc = "done", !.wrote = TRUE]

\* ------------------------------------------------- the server, as inputs
GoodUrl == "http://repo/api"
BadUrl == "htt://wrong_on_purpose"
Urls == {GoodUrl, BadUrl}

Tokens == {None, StrV(""), StrV("tok")}

JsonA == DictV(<<KV("total_results_size", IntV(3))>>)
Jsons == {EmptyDict, JsonA}

CacheControl(tokens) == DictV(<<KV("Cache-Control", HeaderV(tokens))>>)
HeaderSets == {EmptyDict,
               CacheControl(<<"max-age=", "2">>),
               CacheControl(<<"max-age=", "0">>),
               CacheControl(<<"public, ", "max-age=", "2">>)}

Response(st, j, body, h) ==
    [status |-> st, json |-> j, text |-> body, headers |-> h]

OkResponses == {Response(200, j, "", h) : j \in Jsons, h \in HeaderSets}
ErrResponses == {Response(401, None, "", EmptyDict)}
                \cup {Response(c, None, b, EmptyDict) :
                        c \in {404, 500}, b \in {"", "Not Found"}}
Responses == OkResponses \cup ErrResponses

\* what client.get(full_url) can do for a request to url
Net(url) == IF url = BadUrl THEN {InvalidURLRaised} ELSE Responses

\* ------------------------------------------------------------------ Api
\* Ref(data)
Ref(data) ==
    [ty |-> "Ref", id |-> DictGet(data, "id"), ref |-> DictGet(data, "ref"),
     label |-> DictGet(data, "label"),
     is_master_ref |-> DictGet(data, "isMasterRef"),
     scheduled_at |-> DictGet(data, "scheduledAt")]

\* [Ref(ref) for ref in data.get("refs")]
Refs(items) == [i \in 1..Len(items) |-> Ref(items[i])]

IsMaster(ref) == Truthy(ref.is_master_ref)

\* faulty variant: the last flagged Reference is taken
Master_Last(refs) ==
    LET flagged == SelectSeq(refs, IsMaster)
    IN IF Len(flagged) > 0 THEN flagged[Len(flagged)] ELSE None

\* ([ref for ref in self.refs if ref.is_master_ref][:1] or [None])[0]
Master(refs) ==
    LET flagged == SelectSeq(refs, IsMaster)
    IN IF Len(flagged) > 0 THEN flagged[1] ELSE None

\* the loop of Api.__init__ over one form: its "q" field is made multiple
ForceQMultiple(formJson) ==
    LET fields == DictGet(formJson, "fields")
    IN IF DictHas(fields, "q")
       THEN DictUpdate(formJson, "fields",
                DictUpdate(fields, "q",
                    DictUpdate(DictGet(fields, "q"), "multiple",
                               BoolV(TRUE))))
       ELSE formJson

ForceAllForms(forms) ==
    DictV([i \in 1..Len(forms.items) |->
             KV(forms.items[i].k, ForceQMultiple(forms.items[i].v))])

\* Api(data, access_token, cache, client): iterating an absent refs or forms
\* is a TypeError
ApiInit(data, access_token, cache) ==
    IF DictGet(data, "refs").ty # "list" \/ DictGet(data, "forms").ty # "dict"
    THEN Raised("TypeError", <<>>)
    ELSE LET refs == Refs(DictGet(data, "refs").items)
         IN Returned([ty |-> "Api", refs |-> refs,
                      forms |-> ForceAllForms(DictGet(data, "forms")),
                      access_token |-> access_token, cache |-> cache,
                      master |-> Master(refs)])

\* Api.get_master()
get_master(a) == a.master

\* Api.get_ref(label)
get_ref(a, label) ==
    LET found == SelectSeq(a.refs, LAMBDA r : r.label = label)
    IN IF Len(found) > 0 THEN found[1] ELSE None

\* ----------------------------------------------------------- SearchForm
\* faulty variant: a multiple field restarts its list at every call
FormSet_Restarts(f, field, value) ==
    LET form_field == DictGet(f.fields, field)
    IN IF Truthy(form_field) /\ Truthy(DictGet(form_field, "multiple"))
       THEN [f EXCEPT !.data = DictUpdate(f.data, field, ListV(<<value>>))]
       ELSE [f EXCEPT !.data = DictUpdate(f.data, field, value)]

\* SearchForm.set(field, value)
FormSet(f, field, value) ==
    LET form_field == DictGet(f.fields, field)
    IN IF Truthy(form_field) /\ Truthy(DictGet(form_field, "multiple"))
       THEN LET d1 == IF ~Truthy(DictGet(f.data, field))
                      THEN DictUpdate(f.data, field, ListV(<<>>))
                      ELSE f.data
                old == DictGet(d1, field)
            IN [f EXCEPT !.data =
                  DictUpdate(d1, field, ListV(Append(old.items, value)))]
       ELSE [f EXCEPT !.data = DictUpdate(f.data, field, value)]

\* the fields of a Form Definition that carry a default, in order
RECURSIVE Defaults(_)
Defaults(kvs) ==
    IF Len(kvs) = 0 THEN <<>>
    ELSE (IF Truthy(DictGet(kvs[1].v, "default"))
          THEN <<[field |-> kvs[1].k, value |-> DictGet(kvs[1].v, "default")]>>
          ELSE <<>>)
         \o Defaults(Tail(kvs))

RECURSIVE ApplySets(_, _)
ApplySets(f, calls) ==
    IF Len(calls) = 0 THEN f
    ELSE ApplySets(FormSet(f, calls[1].field, calls[1].value), Tail(calls))

\* SearchForm(form, access_token, cache, client)
SearchForm(formJson, access_token, cache) ==
    LET fields == PyOr(DictGet(formJson, "fields"), EmptyDict)
        blank == [ty |-> "SearchForm",
                  action |-> DictGet(formJson, "action"),
                  method |-> DictGet(formJson, "method"),
                  enctype |-> DictGet(formJson, "enctype"),
                  fields |-> fields, data |-> EmptyDict,
                  access_token |-> access_token, cache |-> cache]
    IN ApplySets(blank, Defaults(fields.items))

\* Api.form(name)
ApiForm(a, name) ==
    IF DictGet(a.forms, name) = None
    THEN Raised("Exception", <<StrV("Bad form name"), StrV(name)>>)
    ELSE Returned(SearchForm(DictGet(a.forms, name), a.access_token, a.cache))

\* the value SearchForm.ref(ref) hands to set: a Ref gives its token
RefArg(ref) == IF ref.ty = "Ref" THEN ref.ref ELSE ref

\* faulty variant: an empty token counts as no ref
RefIsMissing_Falsy(data) == ~Truthy(DictGet(data, "ref"))

\* submit_assert_preconditions: `self.data.get('ref') is None`
RefIsMissing(data) == DictGet(data, "ref") = None

\* Response(data): the document list is built from data.get("results")
ResponseOf(json) ==
    IF DictGet(json, "results").ty # "list" THEN Raised("TypeError", <<>>)
    ELSE Returned([ty |-> "Response", data |-> json,
                   total_results_size |-> DictGet(json, "total_results_size")])

\* faulty variant: the ref is not looked at before the fetch
submit_Unchecked(f, st, t, net) ==
    LET r == get_json(f.action.s, f.data, f.access_token, f.cache, None,
                      st, t, net)
    IN IF r.out.kind = "return"
       THEN [r EXCEPT !.out = ResponseOf(r.out.value)]
       ELSE r

\* faulty variant: the request is made before the ref is looked at
submit_FetchesFirst(f, st, t, net) ==
    LET r == get_json(f.action.s, f.data, f.access_token, f.cache, None,
                      st, t, net)
    IN IF RefIsMissing(f.data)
       THEN [r EXCEPT !.out = Raised("RefMissing", <<>>)]
       ELSE IF r.out.kind = "return"
       THEN [r EXCEPT !.out = ResponseOf(r.out.value)]
       ELSE r

\* SearchForm.submit() on f
submit(f, st, t, net) ==
    IF RefIsMissing(f.data)
    THEN [out |-> Raised("RefMissing", <<>>), store |-> st, reqs |-> <<>>,
          full_url |-> "", expire |-> None]
    ELSE LET r == get_json(f.action.s, f.data, f.access_token, f.cache, None,
                           st, t, net)
         IN IF r.out.kind = "return"
            THEN [r EXCEPT !.out = ResponseOf(r.out.value)]
            ELSE r

\* the form once submit() has run on it: get_json is handed self.data
\* unless the ref check raised before it
FormAfterSubmit(f) ==
    IF RefIsMissing(f.data) THEN f
    ELSE [f EXCEPT !.data = ParamsAfter(f.data, f.access_token)]

\* SearchForm.__copy__
CopyForm(f) ==
    [SearchForm(EmptyDict, f.access_token, f.cache) EXCEPT
        !.action = f.action, !.method = f.method, !.enctype = f.enctype,
        !.fields = f.fields, !.data = f.data]

\* faulty variant: the page size is set on the form itself
CountForms_InPlace(f) ==
    [self |-> FormSet(f, "pageSize", IntV(1)),
     cp |-> FormSet(f, "pageSize", IntV(1))]

\* `copy(self).pageSize(1)`: the form count() leaves behind and the copy it
\* submits
CountForms(f) == [self |-> f, cp |-> FormSet(CopyForm(f), "pageSize", IntV(1))]

\* SearchForm.count() on f
count(f, st, t, net) ==
    LET r == submit(CountForms(f).cp, st, t, net)
    IN IF r.out.kind = "return"
       THEN [r EXCEPT !.out = Returned(r.out.value.total_results_size)]
       ELSE r

\* ----------------------------------------- predicates and their operands
RECURSIVE Concat(_)
Concat(parts) ==
    IF Len(parts) = 0 THEN "" ELSE parts[1] \o Concat(Tail(parts))

\* a str given character by character, so that startswith can read it
TextV(chars) == [ty |-> "str", s |-> Concat(chars), n |-> 0, items |-> chars]

TupleV(xs) == [ty |-> "tuple", s |-> "", n |-> 0, items |-> xs]

\* str.startswith(prefix) on the characters of a str
StartsWith(chars, prefix) ==
    /\ Len(chars) >= Len(prefix)
    /\ SubSeq(chars, 1, Len(prefix)) = prefix

MyDot == <<"m", "y", ".">>
DocumentWord == <<"d", "o", "c", "u", "m", "e", "n", "t">>
DocumentDot == DocumentWord \o <<".">>

\* faulty variant: every string that begins with `document` is taken for a
\* field path
IsFieldPath_AnyDocument(field) ==
    \/ StartsWith(field.items, MyDot)
    \/ StartsWith(field.items, DocumentWord)

\* field.startswith('my.') or field.startswith('document.')
\*     or field == 'document'
IsFieldPath(field) ==
    \/ StartsWith(field.items, MyDot)
    \/ StartsWith(field.items, DocumentDot)
    \/ field.items = DocumentWord

\* hasattr(field, '__iter__') for a field that is not a string
HasIter(field) == field.ty \in {"list", "tuple"}

\* ", ".join(strings)
RECURSIVE JoinComma(_)
JoinComma(strings) ==
    IF Len(strings) = 0 THEN ""
    ELSE IF Len(strings) = 1 THEN strings[1]
    ELSE strings[1] \o ", " \o JoinComma(Tail(strings))

\* SearchForm._serialize(field)
RECURSIVE serialize(_)
serialize(field) ==
    IF field.ty = "str"
    THEN IF IsFieldPath(field) THEN field.s ELSE "\"" \o field.s \o "\""
    ELSE IF HasIter(field)
    THEN "[" \o JoinComma([i \in 1..Len(field.items) |->
                              serialize(field.items[i])]) \o "]"
    ELSE PyStr(field)

\* the operands of a predicate, serialized: predicate[1:]
Args(predicate) ==
    [i \in 1..(Len(predicate.items) - 1) |-> serialize(predicate.items[i + 1])]

\* "[:d = %(op)s(%(args)s)]" for one predicate
Clause(predicate) ==
    "[:d = " \o PyStr(predicate.items[1]) \o "("
        \o JoinComma(Args(predicate)) \o ")]"

\* faulty variant: a blank between two clauses
RECURSIVE Clauses_Spaced(_)
Clauses_Spaced(argv) ==
    IF Len(argv) = 0 THEN ""
    ELSE IF Len(argv) = 1 THEN Clause(argv[1])
    ELSE Clause(argv[1]) \o " " \o Clauses_Spaced(Tail(argv))

\* the loop of SearchForm.query over its predicates: q += clause
RECURSIVE Clauses(_)
Clauses(argv) ==
    IF Len(argv) = 0 THEN ""
    ELSE Clause(argv[1]) \o Clauses(Tail(argv))

\* the q that SearchForm.query(*argv) sets, for a non-empty argv
QueryText(argv) ==
    IF argv[1].ty = "str" THEN argv[1]
    ELSE StrV("[" \o Clauses(argv) \o "]")

\* SearchForm.query(*argv) on f
query(f, argv) ==
    IF Len(argv) = 0 THEN f ELSE FormSet(f, "q", QueryText(argv))

\* prismic.predicates: each helper gives (operator, operand, ...)
at(fragment, value) == TupleV(<<StrV("at"), fragment, value>>)
any(fragment, values) == TupleV(<<StrV("any"), fragment, values>>)
in_(fragment, values) == TupleV(<<StrV("in"), fragment, values>>)
similar(document_id, max_results) ==
    TupleV(<<StrV("similar"), document_id, max_results>>)
month_after(fragment, month) ==
    TupleV(<<StrV("date.month-after"), fragment, month>>)
month_before(fragment, month) ==
    TupleV(<<StrV("date.month-before"), fragment, month>>)

\* ------------------------------------------- StructuredText (legacy model)
\* Rendered HTML is held as a sequence of pieces (a tag, an escaped letter),
\* which ''.join turns into the string.
\* html.escape(letter)
Escape(letter) ==
    CASE letter = "&" -> "&amp;"
      [] letter = "<" -> "&lt;"
      [] letter = ">" -> "&gt;"
      [] letter = "\"" -> "&quot;"
      [] letter = "'" -> "&#x27;"
      [] OTHER -> letter

Reverse(xs) == [i \in 1..Len(xs) |-> xs[Len(xs) + 1 - i]]

\* Span.from_json(data): the class by type, SpanElement for any other type;
\* a hyperlink keeps the url of its web link
SpanOf(data) ==
    LET type == DictGet(data, "type")
        extra == DictGet(data, "data")
    IN [ty |-> CASE type = StrV("strong") -> "Strong"
                 [] type = StrV("em") -> "Em"
                 [] type = StrV("hyperlink") -> "Hyperlink"
                 [] OTHER -> "SpanElement",
        start |-> DictGet(data, "start").n,
        end |-> DictGet(data, "end").n,
        label |-> IF extra # None THEN DictGet(extra, "label") ELSE None,
        url |-> IF extra # None
                THEN DictGet(DictGet(extra, "value"), "url") ELSE None]

\* SpanElement.length()
Length(span) == span.end - span.start

\* sorted(spans, key=lambda s: s.length()): ascending and stable
RECURSIVE InsertByLength(_, _)
InsertByLength(sorted, span) ==
    IF Len(sorted) = 0 THEN <<span>>
    ELSE IF Length(sorted[1]) <= Length(span)
    THEN <<sorted[1]>> \o InsertByLength(Tail(sorted), span)
    ELSE <<span>> \o sorted

RECURSIVE SortedByLength(_)
SortedByLength(spans) ==
    IF Len(spans) = 0 THEN <<>>
    ELSE InsertByLength(SortedByLength(SubSeq(spans, 1, Len(spans) - 1)),
                        spans[Len(spans)])

\* tags_start[index], tags_end[index]
TagsStart(spans, index) == SelectSeq(spans, LAMBDA span : span.start = index)
TagsEnd(spans, index) ==
    SelectSeq(Reverse(spans), LAMBDA span : span.end = index)

\* faulty variant: the shortest span is opened first
OpenOrder_Ascending(spans, index) == SortedByLength(TagsStart(spans, index))

\* reversed(sorted(tags_start.get(index), key=lambda s: s.length()))
OpenOrder(spans, index) == Reverse(SortedByLength(TagsStart(spans, index)))

\* StructuredText.span_write_tag(span, content, ...) with no html_serializer
span_write_tag(span, content) ==
    CASE span.ty = "Em" -> <<"<em>">> \o content \o <<"</em>">>
      [] span.ty = "Strong" -> <<"<strong>">> \o content \o <<"</strong>">>
      [] span.ty = "Hyperlink" ->
            <<"<a href=\"" \o PyStr(span.url) \o "\">">> \o content
                \o <<"</a>">>
      [] OTHER ->
            LET cls == IF span.label # None
                       THEN " class=\"" \o PyStr(span.label) \o "\"" ELSE ""
            IN <<"<span" \o cls \o ">">> \o content \o <<"</span>">>

\* the walk of span_as_html: the stack of open tags, the top-level output,
\* and whether a pop found the stack empty (an IndexError)
Walking(stack, html_list, err) ==
    [stack |-> stack, html_list |-> html_list, err |-> err]

\* text added to the innermost open tag, or to the output when none is open
Emit(w, pieces) ==
    IF Len(w.stack) = 0
    THEN [w EXCEPT !.html_list = w.html_list \o pieces]
    ELSE [w EXCEPT !.stack[Len(w.stack)].content =
                      w.stack[Len(w.stack)].content \o pieces]

\* faulty variant: the content gathered for the tag is not written
CloseTag_Empty(w) ==
    IF Len(w.stack) = 0 THEN [w EXCEPT !.err = TRUE]
    ELSE LET tag == w.stack[Len(w.stack)]
             rest == [w EXCEPT !.stack = SubSeq(w.stack, 1, Len(w.stack) - 1)]
         IN Emit(rest, span_write_tag(tag.span, <<>>))

\* "Close a tag": stack.pop(), then its HTML goes to its parent
CloseTag(w) ==
    IF Len(w.stack) = 0 THEN [w EXCEPT !.err = TRUE]
    ELSE LET tag == w.stack[Len(w.stack)]
             rest == [w EXCEPT !.stack = SubSeq(w.stack, 1, Len(w.stack) - 1)]
         IN Emit(rest, span_write_tag(tag.span, tag.content))

RECURSIVE CloseTags(_, _)
CloseTags(w, k) == IF k = 0 \/ w.err THEN w ELSE CloseTags(CloseTag(w), k - 1)

\* "Open a tag" for each span of the sequence, in its order
RECURSIVE OpenTags(_, _)
OpenTags(w, spans) ==
    IF Len(spans) = 0 THEN w
    ELSE OpenTags([w EXCEPT !.stack = Append(w.stack,
                                [span |-> spans[1], content |-> <<>>])],
                  Tail(spans))

\* the loop over enumerate(text), from index on
RECURSIVE Walk(_, _, _, _)
Walk(w, text, spans, index) ==
    IF index >= Len(text) \/ w.err THEN w
    ELSE LET closed == CloseTags(w, Len(TagsEnd(spans, index)))
             opened == OpenTags(closed, OpenOrder(spans, index))
         IN Walk(Emit(opened, <<Escape(text[index + 1])>>), text, spans,
                 index + 1)

\* StructuredText.span_as_html(text, spans, ...)
span_as_html(text, spans) ==
    LET walked == Walk(Walking(<<>>, <<>>, FALSE), text, spans, 0)
        done == CloseTags(walked, Len(walked.stack))
    IN IF done.err THEN Raised("IndexError", <<>>)
       ELSE Returned(ListV(done.html_list))

\* the `types` table of StructuredText.__init__ (image blocks left aside)
BlockTypes ==
    [t \in {"heading1", "heading2", "heading3", "heading4", "heading5",
            "heading6", "paragraph", "list-item", "o-list-item", "embed"} |->
        CASE t = "paragraph" -> "Paragraph"
          [] t \in {"list-item", "o-list-item"} -> "ListItem"
          [] t = "embed" -> "Embed"
          [] OTHER -> "Heading"]

\* value.get("type")[-1] for a heading
Level(t) ==
    CASE t = "heading1" -> "1" [] t = "heading2" -> "2"
      [] t = "heading3" -> "3" [] t = "heading4" -> "4"
      [] t = "heading5" -> "5" [] t = "heading6" -> "6"
      [] OTHER -> ""

\* the Block built from one JSON element of a recognized type
BlockOf(value) ==
    LET t == DictGet(value, "type").s
        spans == DictGet(value, "spans")
    IN [ty |-> BlockTypes[t],
        text |-> DictGet(value, "text").items,
        spans |-> IF BlockTypes[t] = "Embed" THEN <<>>
                  ELSE [i \in 1..Len(spans.items) |-> SpanOf(spans.items[i])],
        label |-> DictGet(value, "label"),
        is_ordered |-> t = "o-list-item",
        level |-> Level(t),
        obj |-> DictGet(value, "oembed")]

\* StructuredText(values).blocks: elements of an unknown type are dropped
RECURSIVE Blocks(_)
Blocks(values) ==
    IF Len(values) = 0 THEN <<>>
    ELSE LET text_type == DictGet(values[1], "type")
         IN (IF text_type.ty = "str" /\ text_type.s \in DOMAIN BlockTypes
             THEN <<BlockOf(values[1])>> ELSE <<>>)
            \o Blocks(Tail(values))

StructuredText(values) == [ty |-> "StructuredText", blocks |-> Blocks(values)]

\* StructuredText.Group(tag, blocks)
Group(tag, blocks) == [tag |-> tag, blocks |-> blocks]

IsListItem(block) == block.ty = "ListItem"

\* the group a block starts
NewGroup(block) ==
    IF IsListItem(block) /\ ~block.is_ordered THEN Group(StrV("ul"), <<block>>)
    ELSE IF IsListItem(block) /\ block.is_ordered
    THEN Group(StrV("ol"), <<block>>)
    ELSE Group(None, <<block>>)

JoinsLast(groups, block) ==
    [groups EXCEPT ![Len(groups)].blocks = Append(@, block)]

\* faulty variant: a list item joins whatever list came last
AddBlock_AnyList(groups, block) ==
    IF Len(groups) > 0 /\ groups[Len(groups)].tag # None /\ IsListItem(block)
    THEN JoinsLast(groups, block)
    ELSE Append(groups, NewGroup(block))

\* one turn of the grouping loop of as_html
AddBlock(groups, block) ==
    IF Len(groups) > 0
    THEN LET last_one == groups[Len(groups)]
         IN IF /\ last_one.tag = StrV("ul")
               /\ IsListItem(block) /\ ~block.is_ordered
            THEN JoinsLast(groups, block)
            ELSE IF /\ last_one.tag = StrV("ol")
                    /\ IsListItem(block) /\ block.is_ordered
            THEN JoinsLast(groups, block)
            ELSE Append(groups, NewGroup(block))
    ELSE Append(groups, NewGroup(block))

RECURSIVE GroupBlocks(_, _)
GroupBlocks(groups, blocks) ==
    IF Len(blocks) = 0 THEN groups
    ELSE GroupBlocks(AddBlock(groups, blocks[1]), Tail(blocks))

\* Fragment.Embed.as_html of the embed a block carries
EmbedHtml(oembed) ==
    "<div data-oembed=\"" \o PyStr(DictGet(oembed, "embed_url"))
        \o "\" data-oembed-type=\"" \o PyStr(DictGet(oembed, "type"))
        \o "\" data-oembed-provider=\""
        \o PyStr(DictGet(oembed, "provider_name")) \o "\">"
        \o PyStr(DictGet(oembed, "html")) \o "</div>"

\* StructuredText.block_as_html(block, content, ...) with no html_serializer
block_as_html(block, content) ==
    LET cls == IF block.ty # "Embed" /\ block.label # None
               THEN " class=\"" \o PyStr(block.label) \o "\"" ELSE ""
    IN CASE block.ty = "Heading" ->
              <<"<h" \o block.level \o cls \o ">">> \o content
                  \o <<"</h" \o block.level \o ">">>
         [] block.ty = "Paragraph" ->
              <<"<p" \o cls \o ">">> \o content \o <<"</p>">>
         [] block.ty = "ListItem" ->
              <<"<li" \o cls \o ">">> \o content \o <<"</li>">>
         [] OTHER -> <<EmbedHtml(block.obj)>>

\* the pieces as_html appends for the blocks of one group
RECURSIVE BlocksHtml(_)
BlocksHtml(blocks) ==
    IF Len(blocks) = 0 THEN <<>>
    ELSE LET block == blocks[1]
             content == IF block.ty # "Embed"
                        THEN span_as_html(block.text, block.spans).value.items
                        ELSE <<>>
         IN block_as_html(block, content) \o BlocksHtml(Tail(blocks))

\* the pieces as_html appends for the groups
RECURSIVE GroupsHtml(_)
GroupsHtml(groups) ==
    IF Len(groups) = 0 THEN <<>>
    ELSE LET group == groups[1]
             open == IF group.tag # None
                     THEN <<"<" \o PyStr(group.tag) \o ">">> ELSE <<>>
             close == IF group.tag # None
                      THEN <<"</" \o PyStr(group.tag) \o ">">> ELSE <<>>
         IN open \o BlocksHtml(group.blocks) \o close
                 \o GroupsHtml(Tail(groups))

\* StructuredText.as_html(link_resolver): html_list, before ''.join
HtmlList(structured_text) ==
    GroupsHtml(GroupBlocks(<<>>, structured_text.blocks))

\* an error of span_as_html on one of the blocks ends as_html
SpansFail(blocks) ==
    \E i \in 1..Len(blocks) :
        /\ blocks[i].ty # "Embed"
        /\ span_as_html(blocks[i].text, blocks[i].spans).kind = "raise"

\* StructuredText.as_html(link_resolver)
as_html(structured_text) ==
    IF SpansFail(structured_text.blocks) THEN Raised("IndexError", <<>>)
    ELSE Returned(StrV(Concat(HtmlList(structured_text))))

\* --------------------------------------------- legacy fragments, Document
\* Fragment._types: fragment JSON type -> the class that is built
FragmentTypes ==
    [t \in {"Image", "Color", "Text", "Select", "Number", "Range", "Date",
            "Timestamp", "StructuredText", "Link.document", "Link.file",
            "Link.web", "Link.image", "Embed", "GeoPoint", "Group",
            "SliceZone"} |->
        CASE t = "Select" -> "Text"
          [] t = "Link.document" -> "DocumentLink"
          [] t = "Link.file" -> "FileLink"
          [] t = "Link.web" -> "WebLink"
          [] t = "Link.image" -> "ImageLink"
          [] OTHER -> t]

\* Fragment.from_json(data): None when the type is not in the table
from_json(data) ==
    LET fragment_type == DictGet(data, "type")
    IN IF fragment_type.ty = "str" /\ fragment_type.s \in DOMAIN FragmentTypes
       THEN IF FragmentTypes[fragment_type.s] = "StructuredText"
            THEN StructuredText(DictGet(data, "value").items)
            ELSE [ty |-> FragmentTypes[fragment_type.s],
                  value |-> DictGet(data, "value")]
       ELSE None

\* the inner loop of Document.__init__ over a list-valued field, from the
\* element at position i on
RECURSIVE IndexedFragments(_, _, _, _)
IndexedFragments(fragments, f_key, elements, i) ==
    IF i > Len(elements) THEN fragments
    ELSE IndexedFragments(
            DictUpdate(fragments, f_key \o "[" \o DecText(i - 1) \o "]",
                       from_json(elements[i])),
            f_key, elements, i + 1)

\* the loop of Document.__init__ over the fields of the document's type
RECURSIVE FieldFragments(_, _, _)
FieldFragments(fragments, type, kvs) ==
    IF Len(kvs) = 0 THEN fragments
    ELSE LET f_key == PyStr(type) \o "." \o kvs[1].k
             fragment_value == kvs[1].v
             next ==
                IF fragment_value.ty = "list"
                THEN IndexedFragments(fragments, f_key,
                                      fragment_value.items, 1)
                ELSE IF fragment_value.ty = "dict"
                THEN DictUpdate(fragments, f_key, from_json(fragment_value))
                ELSE fragments
         IN FieldFragments(next, type, Tail(kvs))

\* urlparse.unquote on the slugs the model uses
Unquote(t) ==
    CASE t = "a%20slug" -> "a slug"
      [] OTHER -> t

\* Document(data)
Document(data) ==
    LET type == DictGet(data, "type")
        fields == IF DictHas(data, "data")
                  THEN DictGet(DictGet(data, "data"), PyStr(type))
                  ELSE EmptyDict
        given == DictGet(data, "slugs")
    IN [ty |-> "Document", data |-> data,
        fragments |-> FieldFragments(EmptyDict, type, fields.items),
        slugs |-> IF given # None
                  THEN [i \in 1..Len(given.items) |->
                          StrV(Unquote(given.items[i].s))]
                  ELSE <<StrV("-")>>]

\* Document.slug
Slug(doc) == IF Len(doc.slugs) > 0 THEN doc.slugs[1] ELSE StrV("-")

\* Document.as_link(): the DocumentLink built from the document's own JSON
as_link(doc) ==
    LET document == DictUpdate(doc.data, "slug", Slug(doc))
    IN [ty |-> "DocumentLink", id |-> DictGet(document, "id"),
        uid |-> DictGet(document, "uid"), type |-> DictGet(document, "type"),
        tags |-> DictGet(document, "tags"), slug |-> DictGet(document, "slug"),
        is_broken |-> None]

\* html.escape(value) on a text given by its characters
EscapeText(value) ==
    Concat([i \in 1..Len(value.items) |-> Escape(value.items[i])])

\* "%g" % x for an int or a float of the model (below a million): the
\* shortest decimal, without a trailing ".0"
FormatG(x) ==
    IF x.ty = "float"
    THEN IF x.n % 10 = 0 THEN DecText(x.n \div 10)
         ELSE DecText(x.n \div 10) \o "." \o DecText(x.n % 10)
    ELSE DecText(x.n)

\* "%f" % x and f"{x:f}": six decimals
FormatF(x) ==
    IF x.ty = "float"
    THEN DecText(x.n \div 10) \o "." \o DecText(x.n % 10) \o "00000"
    ELSE DecText(x.n) \o ".000000"

\* the <img> tag of Fragment.Image.View.as_html and of the typed Image.as_html
ImgTag(url, alt, width, height) ==
    "<img src=\"" \o PyStr(url) \o "\" alt=\""
    \o (IF alt # None THEN PyStr(alt) ELSE "") \o "\" width=\""
    \o PyStr(width) \o "\" height=\"" \o PyStr(height) \o "\" />"

\* Fragment.Image(value).as_html(link_resolver) of an image with no link
LegacyImageHtml(value) ==
    LET main == DictGet(value, "main")
    IN ImgTag(DictGet(main, "url"), DictGet(main, "alt"),
              DictGet(DictGet(main, "dimensions"), "width"),
              DictGet(DictGet(main, "dimensions"), "height"))

\* Fragment.GeoPoint(value).as_html
LegacyGeoPointHtml(value) ==
    "<div class=\"geopoint\"><span class=\"latitude\">"
    \o FormatF(DictGet(value, "latitude"))
    \o "</span><span class=\"longitude\">"
    \o FormatF(DictGet(value, "longitude")) \o "</span></div>"

\* WithFragments.fragment_to_html(fragment, link_resolver), for the fragments
\* the model builds: structured texts, images and geopoints, and the basic
\* fragments; a fragment that is None gives ""
fragment_to_html(fragment) ==
    CASE fragment.ty = "StructuredText" -> PyStr(as_html(fragment).value)
      [] fragment.ty = "Image" -> LegacyImageHtml(fragment.value)
      [] fragment.ty = "GeoPoint" -> LegacyGeoPointHtml(fragment.value)
      [] fragment.ty = "Text" ->
            "<span class=\"text\">" \o EscapeText(fragment.value) \o "</span>"
      [] fragment.ty = "Number" ->
            "<span class=\"number\">" \o FormatG(fragment.value) \o "</span>"
      [] fragment.ty = "Range" ->
            "<span class=\"range\">" \o PyStr(fragment.value) \o "</span>"
      [] fragment.ty = "Color" ->
            "<span class=\"color\">" \o PyStr(fragment.value) \o "</span>"
      [] fragment.ty \in {"Date", "Timestamp"} ->
            "<time>" \o PyStr(fragment.value) \o "</time>"
      [] ~Truthy(fragment) -> ""

\* the html_list of WithFragments.as_html: three pieces per key
RECURSIVE SectionsHtml(_)
SectionsHtml(kvs) ==
    IF Len(kvs) = 0 THEN <<>>
    ELSE <<"<section data-field=\"" \o kvs[1].k \o "\">",
           fragment_to_html(kvs[1].v), "</section>">>
         \o SectionsHtml(Tail(kvs))

\* WithFragments.as_html(link_resolver) of a document
document_as_html(doc) == Concat(SectionsHtml(doc.fragments.items))

\* Response.documents
Documents(resp) ==
    LET results == DictGet(resp.data, "results").items
    IN [i \in 1..Len(results) |-> Document(results[i])]

\* ------------------------------------------- typed structures, ResultData
\* the fields of ResultData, in the order the class declares them; this is
\* the order in which iterating over the record gives them
ResultDataFields ==
    <<"stext_single", "stext", "image", "link_web", "link_document",
      "link_media", "text", "date", "timestamp", "number", "range", "select",
      "color", "geopoint", "embed", "source", "group", "slices">>

\* validation of a field declared Optional[float]: an int becomes a float
AsFloat(v) == IF v.ty = "int" THEN FloatV(10 * v.n) ELSE v

\* GeoPoint(**v): latitude and longitude are Optional[float]
GeoPoint(v) ==
    [ty |-> "GeoPoint", latitude |-> AsFloat(DictGet(v, "latitude")),
     longitude |-> AsFloat(DictGet(v, "longitude"))]

\* Image(**v): url, dimensions, alt and linkTo of the View it extends
Image(v) ==
    [ty |-> "Image", url |-> DictGet(v, "url"),
     dimensions |-> DictGet(v, "dimensions"), alt |-> DictGet(v, "alt"),
     linkTo |-> DictGet(v, "linkTo")]

\* the value a declared field holds after validation, for the kinds of
\* field the model fills: text, number, range, select, color, geopoint, image
Validated(key, v) ==
    IF v = None THEN None
    ELSE CASE key = "number" -> AsFloat(v)
           [] key = "geopoint" -> GeoPoint(v)
           [] key = "image" -> Image(v)
           [] OTHER -> v

\* ResultData(**data): every declared field, None when data has no such key;
\* keys that are not declared are ignored
ResultData(data) ==
    [ty |-> "ResultData",
     fields |-> [i \in 1..Len(ResultDataFields) |->
                   KV(ResultDataFields[i],
                      Validated(ResultDataFields[i],
                                DictGet(data, ResultDataFields[i])))]]

\* typed GeoPoint.as_html(link_resolver)
GeoPoint_as_html(g) ==
    IF ~Truthy(g.latitude) \/ ~Truthy(g.longitude) THEN ""
    ELSE "<div class=\"geopoint\"><span class=\"latitude\">"
         \o FormatF(g.latitude) \o "</span><span class=\"longitude\">"
         \o FormatF(g.longitude) \o "</span></div>"

\* typed Image.as_html(link_resolver) of an image with no link
Image_as_html(im) ==
    IF ~Truthy(im.url) THEN ""
    ELSE ImgTag(im.url, im.alt, DictGet(im.dimensions, "width"),
                DictGet(im.dimensions, "height"))

\* ResultData.fragment_to_html(key, fragment, link_resolver), for the kinds
\* of field the model fills
ResultData_fragment_to_html(key, fragment) ==
    IF ~Truthy(fragment) THEN ""
    ELSE LET k == IF key = "select" THEN "text" ELSE key
         IN CASE k \in {"color", "text", "number", "range"} ->
                    "<span class=\"" \o k \o "\">" \o PyStr(fragment)
                    \o "</span>"
              [] k = "date" -> "<time>" \o PyStr(fragment) \o "</time>"
              [] k = "image" -> Image_as_html(fragment)
              [] k = "geopoint" -> GeoPoint_as_html(fragment)
              [] OTHER -> ""

\* the html_list of ResultData.as_html: three pieces per field that passes
\* `if fragment`
RECURSIVE TypedSections(_)
TypedSections(kvs) ==
    IF Len(kvs) = 0 THEN <<>>
    ELSE (IF Truthy(kvs[1].v)
          THEN <<"<section data-field=\"" \o kvs[1].k \o "\">",
                 ResultData_fragment_to_html(kvs[1].k, kvs[1].v),
                 "</section>">>
          ELSE <<>>)
         \o TypedSections(Tail(kvs))

\* ResultData.as_html(link_resolver)
ResultData_as_html(rd) == Concat(TypedSections(rd.fields))

\* -------------------------------------------------------- Api queries
\* what Api.query is called with; None is an argument left out
QueryArgs(q, ref, page_size, page, orderings, after, fetch_links) ==
    [q |-> q, ref |-> ref, page_size |-> page_size, page |-> page,
     orderings |-> orderings, after |-> after, fetch_links |-> fetch_links]

\* one optional setter of Api.query: `if value is not None: form.set(...)`
SetIfGiven(f, field, value) ==
    IF value # None THEN FormSet(f, field, value) ELSE f

\* faulty variant: with no ref given and no master, the first ref is taken
QueryRef_FirstRef(a, ref) ==
    IF ref # None THEN ref
    ELSE IF get_master(a) # None THEN get_master(a)
    ELSE IF Len(a.refs) > 0 THEN a.refs[1] ELSE None

\* `if ref is None: ref = self.get_master()`
QueryRef(a, ref) == IF ref = None THEN get_master(a) ELSE ref

\* the form Api.query submits, built on the "everything" form f: each setter
\* acts on the form the one before it left
QueryForm(a, f, c) ==
    LET f0 == {FormSet(f, "ref", RefArg(QueryRef(a, c.ref)))}
        f1 == {SetIfGiven(x, "pageSize", c.page_size) : x \in f0}
        f2 == {SetIfGiven(x, "page", c.page) : x \in f1}
        f3 == {SetIfGiven(x, "orderings", c.orderings) : x \in f2}
        f4 == {SetIfGiven(x, "after", c.after) : x \in f3}
        f5 == {SetIfGiven(x, "fetchLinks", c.fetch_links) : x \in f4}
    IN CHOOSE g \in {query(x, <<c.q>>) : x \in f5} : TRUE

\* the outcome of a call that raised before it got to any request
Failed(out, st) ==
    [out |-> out, store |-> st, reqs |-> <<>>, full_url |-> "",
     expire |-> None]

\* Api.query(q, ref, page_size, page, orderings, after, fetch_links)
ApiQuery(a, c, st, t, net) ==
    LET everything == ApiForm(a, "everything")
    IN IF everything.kind = "raise" THEN Failed(everything, st)
       ELSE CHOOSE r \in {submit(f, st, t, net) :
                          f \in {QueryForm(a, everything.value, c)}} : TRUE

\* the tail of query_first once the query has given r:
\* `if len(documents) > 0: return documents[0]`, else None
FirstDocument(r) ==
    IF r.out.kind = "raise" THEN r
    ELSE LET documents == Documents(r.out.value)
         IN [r EXCEPT !.out = Returned(IF Len(documents) > 0
                                       THEN documents[1] ELSE None)]

\* Api.query_first(q, ref): the first document of the page, or None
query_first(a, q, ref, st, t, net) ==
    FirstDocument(ApiQuery(a, QueryArgs(q, ref, IntV(1), IntV(1), None, None,
                                        None), st, t, net))

\* Api.get_by_uid(type, uid, ref)
get_by_uid(a, type, uid, ref, st, t, net) ==
    query_first(a, at(TextV(MyDot \o type.items \o <<".", "u", "i", "d">>),
                      uid), ref, st, t, net)

\* Api.get_by_id(id, ref)
get_by_id(a, id, ref, st, t, net) ==
    query_first(a, at(TextV(DocumentDot \o <<"i", "d">>), id), ref, st, t, net)

\* Api.get_by_ids(ids, ref, page_size, page, orderings, after, fetch_links)
get_by_ids(a, ids, c, st, t, net) ==
    ApiQuery(a, [c EXCEPT !.q = in_(TextV(DocumentDot \o <<"i", "d">>), ids)],
             st, t, net)

\* Api.get_single(type, ref)
get_single(a, type, ref, st, t, net) ==
    query_first(a, at(TextV(DocumentDot \o <<"t", "y", "p", "e">>), type),
                ref, st, t, net)

\* `doc is None == 0`: a chained comparison, `doc is None and None == 0`
DocIsNoneEq0(doc) == doc = None /\ None = IntV(0)

\* the link resolver the caller hands in: the local URL of a document link
LinkResolver(link) == StrV("/doc/" \o PyStr(link.id))

\* the tail of preview_session once get_by_id has given doc; calling
\* as_link on None is an AttributeError
PreviewUrl(doc, default_url) ==
    IF DocIsNoneEq0(doc) THEN Returned(default_url)
    ELSE IF doc = None THEN Raised("AttributeError", <<>>)
    ELSE Returned(LinkResolver(as_link(doc)))

\* preview_session once get_by_id has answered with r2, after the fetch r1
PreviewDocument(r1, r2, default_url) ==
    [r2 EXCEPT !.reqs = r1.reqs \o r2.reqs,
               !.out = IF r2.out.kind = "raise" THEN r2.out
                       ELSE PreviewUrl(r2.out.value, default_url)]

\* preview_session once the preview JSON has been fetched with r1:
\* `if main_document_id is None: return default_url`, else get_by_id
PreviewMain(a, token, default_url, t, net2, r1) ==
    IF r1.out.kind = "raise" THEN r1
    ELSE LET main_document_id == DictGet(r1.out.value, "mainDocument")
         IN IF main_document_id = None
            THEN [r1 EXCEPT !.out = Returned(default_url)]
            ELSE PreviewDocument(r1, get_by_id(a, main_document_id, token,
                                               r1.store, t, net2),
                                 default_url)

\* Api.preview_session(token, link_resolver, default_url); net1 answers the
\* fetch of the preview JSON, net2 the search for its main document
preview_session(a, token, default_url, st, t, net1, net2) ==
    PreviewMain(a, token, default_url, t, net2,
                get_json(PyStr(token), None, None, "None", None, st, t, net1))

\* ------------------------------------------------------------ experiments
\* A cookie is held token by token: one token per character, and "%20" for
\* the three characters of an encoded blank.
\* urlparse.unquote on the tokens of a cookie
UnquoteCookie(toks) ==
    [i \in 1..Len(toks) |-> IF toks[i] = "%20" THEN " " ELSE toks[i]]

\* str.split(" "): the parts between blanks, an empty part included
RECURSIVE SplitBlank(_, _)
SplitBlank(toks, part) ==
    IF Len(toks) = 0 THEN <<part>>
    ELSE IF toks[1] = " " THEN <<part>> \o SplitBlank(Tail(toks), <<>>)
    ELSE SplitBlank(Tail(toks), Append(part, toks[1]))

AllDigits(toks) == Len(toks) > 0 /\ \A i \in 1..Len(toks) : IsDigit(toks[i])

\* int(text) succeeds: digits, or a minus sign and digits
IsInteger(toks) ==
    \/ AllDigits(toks)
    \/ Len(toks) > 1 /\ toks[1] = "-" /\ AllDigits(Tail(toks))

\* int(text)
IntOf(toks) ==
    IF toks[1] = "-" THEN 0 - ParseInt(Tail(toks), 0) ELSE ParseInt(toks, 0)

\* an Experiment Descriptor and its Variations
Variation(id, label, ref) == [id |-> id, label |-> label, ref |-> StrV(ref)]
Experiment(id, google_id, variations) ==
    [id |-> id, google_id |-> google_id, variations |-> variations]

\* Experiments.parse(data): the draft and the running experiments
Experiments(draft, running) == [draft |-> draft, running |-> running]

\* Experiments.current()
current(exps) == IF Len(exps.running) > 0 THEN exps.running[1] ELSE None

\* the first running experiment with this google id, or None
FindRunning(exps, google_id) ==
    LET found == SelectSeq(exps.running,
                           LAMBDA e : /\ e.google_id # None
                                      /\ e.google_id.items = google_id)
    IN IF Len(found) > 0 THEN found[1] ELSE None

\* faulty variant: only the upper end of the index is tested
InBounds_NoLower(index, variations) == index < Len(variations)

\* the index is in bounds for the Variations list
InBounds(index, variations) == index >= 0 /\ index < Len(variations)

\* variations[index].ref as Python indexes a list: a negative index counts
\* from the end, an index outside the list is an IndexError
RefAt(variations, index) ==
    IF index >= 0 /\ index < Len(variations)
    THEN Returned(variations[index + 1].ref)
    ELSE IF index < 0 /\ index + Len(variations) >= 0
    THEN Returned(variations[Len(variations) + index + 1].ref)
    ELSE Raised("IndexError", <<>>)

\* Experiments.ref_from_cookie(cookie)
ref_from_cookie(exps, cookie) ==
    LET parts == SplitBlank(UnquoteCookie(cookie.items), <<>>)
    IN IF Len(cookie.items) = 0 \/ Len(parts) # 2 THEN Returned(None)
       ELSE IF ~IsInteger(parts[2]) THEN Returned(None)
       ELSE LET exp == FindRunning(exps, parts[1])
                index == IntOf(parts[2])
            IN IF exp = None THEN Returned(None)
               ELSE IF ~InBounds(index, exp.variations) THEN Returned(None)
               ELSE RefAt(exp.variations, index)

\* ------------------------------------------------------- HTTP clients
\* An httpx.AsyncClient the program made: by the library or by the caller,
\* open until it is closed.
NewClient(by) == [by |-> by, open |-> TRUE]

\* client.aclose(), as `async with` calls it on the way out
Release(cs, i) == [cs EXCEPT ![i].open = FALSE]

\* get_using_client(full_url, client): the clients after the request, which
\* net answers or fails; client 0 is `client=None`, for which a client is
\* made and `async with` closes it whatever the request does
get_using_client(cs, client, net) ==
    IF client = 0
    THEN Release(Append(cs, NewClient("library")), Len(cs) + 1)
    ELSE cs

\* the clients after a call that made the requests reqs, all with client
RECURSIVE AfterRequests(_, _, _, _)
AfterRequests(cs, client, reqs, net) ==
    IF Len(reqs) = 0 THEN cs
    ELSE AfterRequests(get_using_client(cs, client, net), client, Tail(reqs),
                       net)

\* `if cache is None: cache = Cache(Cache.MEMORY)` of get and get_with_client
DefaultCache(cache) == IF cache = "None" THEN "Memory" ELSE cache

\* Api(await get_json(url, access_token=..., cache=..., ttl=5, client=...),
\*     access_token, cache, client)
FetchApi(url, access_token, cache, st, t, net) ==
    LET r == get_json(url, None, access_token, DefaultCache(cache), IntV(5),
                      st, t, net)
    IN IF r.out.kind = "raise" THEN r
       ELSE [r EXCEPT !.out = ApiInit(r.out.value, access_token,
                                      DefaultCache(cache))]

\* faulty variant: the client is closed only when the block ends normally
ExitScope_OnSuccess(cs, i, how) == IF how = "return" THEN Release(cs, i) ELSE cs

\* leaving `async with httpx.AsyncClient(...) as client` in get, by a return
\* or by an exception: __aexit__ closes the client either way
ExitScope(cs, i, how) == Release(cs, i)

\* ------------------------------------------- repository descriptions
RefJson(id, token, label, flag) ==
    DictV(<<KV("id", StrV(id)), KV("ref", StrV(token)),
            KV("label", StrV(label)), KV("isMasterRef", BoolV(flag))>>)

RefJsons == {RefJson("master", "r1", "Master", TRUE),
             RefJson("other", "r2", "Other", TRUE),
             RefJson("release", "r3", "Release", FALSE),
             DictV(<<KV("id", StrV("plain")), KV("ref", StrV("r4")),
                     KV("label", StrV("Plain"))>>)}

Single == DictV(<<KV("type", StrV("String")), KV("multiple", BoolV(FALSE))>>)
WithDefault(v) == DictV(<<KV("type", StrV("Integer")),
                          KV("multiple", BoolV(FALSE)),
                          KV("default", StrV(v))>>)

\* the fields of the two "everything" forms the model is given: without
\* defaults, and with the defaults the service declares for the paging fields
FieldsPlain == DictV(<<KV("ref", Single), KV("q", Single),
                       KV("page", Single), KV("pageSize", Single)>>)
FieldsDefaults == DictV(<<KV("ref", Single), KV("q", Single),
                          KV("page", WithDefault("1")),
                          KV("pageSize", WithDefault("20"))>>)

ActionUrl == "http://repo/api/documents/search"

FormJson(fields) ==
    DictV(<<KV("action", StrV(ActionUrl)), KV("method", StrV("GET")),
            KV("enctype", StrV("application/x-www-form-urlencoded")),
            KV("fields", fields)>>)

Description(refs, fields) ==
    DictV(<<KV("refs", ListV(refs)),
            KV("forms", DictV(<<KV("everything", FormJson(fields))>>))>>)

\* ---------------------------------------------------------------- state
\* cacheStore  the in-memory cache's process-wide mapping
\* now         the clock the cache reads
\* api, form   the Api object and the SearchForm built from it
\* result      what the latest call was given and what it did
\* lastSet     history: per key, the latest set(key, value, ttl) called on
\*             the in-memory cache directly, and its time
\* lastFetch   history: the full URL of the latest fetch made with no cache
\*             that got a 200 and determined a TTL
\* log         history: the set(field, value) calls made on form, in order
\* clients     the httpx.AsyncClient objects made so far: who made each and
\*             whether it is still open
\* scope       where the caller is in an `async with prismic.get(...)` block
\* tasks       the calls of get_json that are under way, each at an await
VARIABLES cacheStore, now, api, form, result, lastSet, lastFetch, log,
          clients, scope, tasks

vars == <<cacheStore, now, api, form, result, lastSet, lastFetch, log,
          clients, scope, tasks>>

NoResult == [op |-> "init"]

\* the caller is in no `async with prismic.get(...)` block
NoScope == [pos |-> "outside"]

EmptyHistory == [key \in {} |-> [value |-> None, ttl |-> 0, at |-> 0]]

\* the history after a call that may have stored (key, value, ttl) at time t
Remember(h, stored, key, value, ttl, t) ==
    IF stored
    THEN [q \in (DOMAIN h) \cup {key} |->
            IF q = key THEN [value |-> value, ttl |-> ttl, at |-> t]
            ELSE h[q]]
    ELSE h

\* ----------------------------------------------- connection layer, driven
Call(url, params, token, cache, ttl, net) ==
    [url |-> url, params |-> params, access_token |-> token,
     cache |-> cache, ttl |-> ttl, net |-> net]

RefA == DictV(<<KV("ref", StrV("a"))>>)

\* calls that differ in parameters, token, cache and ttl, against a server
\* that answers 200 with or without a max-age, or 404
CachingCalls ==
    {Call(GoodUrl, c[1], c[2], cache, ttl, net) :
        c \in {<<None, None>>, <<RefA, None>>, <<None, StrV("tok")>>},
        cache \in {"None", "Memory"},
        ttl \in {None, IntV(2)},
        net \in {Response(200, EmptyDict, "", EmptyDict),
                 Response(200, JsonA, "", CacheControl(<<"max-age=", "2">>)),
                 Response(404, None, "Not Found", EmptyDict)}}

\* every ttl against every Cache-Control header of a 200
TtlCalls ==
    {Call(GoodUrl, None, None, "Memory", ttl, Response(200, JsonA, "", h)) :
        ttl \in {None, IntV(0), IntV(2)}, h \in HeaderSets}

\* every token against a 401, and the other statuses
StatusCalls ==
    {Call(GoodUrl, None, token, cache, None, net) :
        token \in Tokens, cache \in {"NoCache"},
        net \in ErrResponses}

BadUrlCalls ==
    {Call(BadUrl, None, token, "Memory", None, InvalidURLRaised) :
        token \in {None, StrV("")}}

FetchCalls == CachingCalls \cup TtlCalls \cup StatusCalls \cup BadUrlCalls

InitConn ==
    /\ cacheStore = EmptyStore
    /\ now = 0
    /\ api = None
    /\ form = None
    /\ result = NoResult
    /\ lastSet = EmptyHistory
    /\ lastFetch = ""
    /\ log = <<>>
    /\ clients = <<>>
    /\ scope = NoScope
    /\ tasks = <<>>

\* one call of get_json
FetchJson ==
    \E c \in FetchCalls :
      LET r == get_json(c.url, c.params, c.access_token, c.cache, c.ttl,
                        cacheStore, now, c.net)
          the_cache == ResolveCache(c.cache)
      IN /\ result = NoResult
         /\ Cardinality(DOMAIN r.store) <= MaxEntries
         /\ cacheStore' = r.store
         /\ result' = [op |-> "get_json", call |-> c, at |-> now,
                       cached |-> CacheGet(the_cache, cacheStore,
                                           r.full_url, now),
                       out |-> r.out, reqs |-> r.reqs,
                       full_url |-> r.full_url, expire |-> r.expire,
                       before |-> cacheStore,
                       again |-> (lastFetch = r.full_url)]
         /\ lastFetch' = IF c.cache = "None" /\ r.out.kind = "return"
                            /\ r.expire # None
                         THEN r.full_url ELSE lastFetch
         /\ UNCHANGED <<now, api, form, lastSet, log, clients, scope, tasks>>

CacheKeys == {GoodUrl, "foo"}
CacheValues == {JsonA, StrV("bar")}
CacheTtls == {0, 2}

\* cache.set(key, value, ttl) on the in-memory cache
MemorySetCall ==
    \E key \in CacheKeys, value \in CacheValues, ttl \in CacheTtls :
      LET st == MemorySet(cacheStore, key, value, ttl, now)
      IN /\ result = NoResult
         /\ Cardinality(DOMAIN st) <= MaxEntries
         /\ cacheStore' = st
         /\ result' = [op |-> "memory.set", key |-> key, value |-> value,
                       ttl |-> ttl, at |-> now]
         /\ lastSet' = Remember(lastSet, TRUE, key, value, ttl, now)
         /\ UNCHANGED <<now, api, form, lastFetch, log, clients, scope, tasks>>

\* cache.get(key) on the in-memory cache
MemoryGetCall ==
    \E key \in CacheKeys :
      /\ result = NoResult
      /\ cacheStore' = MemoryGetStore(cacheStore, key, now)
      /\ result' = [op |-> "memory.get", key |-> key,
                    value |-> MemoryGet(cacheStore, key, now), at |-> now]
      /\ UNCHANGED <<now, api, form, lastSet, lastFetch, log, clients, scope, tasks>>

\* NoCache().set(key, value, ttl)
NoCacheSetCall ==
    \E key \in CacheKeys, value \in CacheValues, ttl \in CacheTtls :
      /\ result = NoResult
      /\ cacheStore' = NoCacheSet(cacheStore, key, value, ttl, now)
      /\ result' = [op |-> "nocache.set", key |-> key, value |-> value,
                    ttl |-> ttl, at |-> now]
      /\ UNCHANGED <<now, api, form, lastSet, lastFetch, log, clients, scope, tasks>>

\* NoCache().get(key)
NoCacheGetCall ==
    \E key \in CacheKeys :
      /\ result = NoResult
      /\ result' = [op |-> "nocache.get", key |-> key,
                    value |-> NoCacheGet(cacheStore, key, now), at |-> now]
      /\ UNCHANGED <<cacheStore, now, api, form, lastSet, lastFetch, log,
                     clients, scope, tasks>>

\* the caller takes the result of its call and goes on
Return ==
    /\ result # NoResult
    /\ result' = NoResult
    /\ UNCHANGED <<cacheStore, now, api, form, lastSet, lastFetch, log,
                   clients, scope, tasks>>

\* time passes
Tick ==
    /\ now < MaxTime
    /\ now' = now + 1
    /\ UNCHANGED <<cacheStore, api, form, result, lastSet, lastFetch, log,
                   clients, scope, tasks>>

NextConn ==
    \/ FetchJson
    \/ NoCacheSetCall
    \/ NoCacheGetCall
    \/ Return
    \/ Tick

SpecConn == InitConn /\ [][NextConn]_vars

NextCache ==
    \/ MemorySetCall
    \/ MemoryGetCall
    \/ Return
    \/ Tick

SpecCache == InitConn /\ [][NextCache]_vars

\* ------------------------------------------------- Api object, driven
RECURSIVE SeqsUpTo(_, _)
SeqsUpTo(S, k) ==
    IF k = 0 THEN {<<>>}
    ELSE LET shorter == SeqsUpTo(S, k - 1)
         IN shorter \cup {Append(q, x) : q \in shorter, x \in S}

ApiDescriptions ==
    {Description(refs, FieldsPlain) : refs \in SeqsUpTo(RefJsons, MaxRefs)}
    \cup {DictV(<<KV("forms", DictV(<<>>))>>)}

\* Api(data, access_token, cache, client)
ApiInitCall ==
    \E data \in ApiDescriptions, token \in {None, StrV("tok")} :
      LET out == ApiInit(data, token, "Memory")
      IN /\ result = NoResult
         /\ api' = IF out.kind = "return" THEN out.value ELSE api
         /\ result' = [op |-> "Api", data |-> data, out |-> out]
         /\ UNCHANGED <<cacheStore, now, form, lastSet, lastFetch, log,
                        clients, scope, tasks>>

\* api.get_master()
GetMasterCall ==
    /\ result = NoResult
    /\ api # None
    /\ result' = [op |-> "get_master", value |-> get_master(api)]
    /\ UNCHANGED <<cacheStore, now, api, form, lastSet, lastFetch, log,
                   clients, scope, tasks>>

\* api.get_ref(label)
GetRefCall ==
    \E label \in {StrV("Master"), StrV("Release"), StrV("Nowhere")} :
      /\ result = NoResult
      /\ api # None
      /\ result' = [op |-> "get_ref", label |-> label,
                    value |-> get_ref(api, label)]
      /\ UNCHANGED <<cacheStore, now, api, form, lastSet, lastFetch, log,
                     clients, scope, tasks>>

\* api.form(name)
ApiFormCall ==
    \E name \in {"everything", "nothing"} :
      LET out == ApiForm(api, name)
      IN /\ result = NoResult
         /\ api # None
         /\ form' = IF out.kind = "return" THEN out.value ELSE form
         /\ log' = IF out.kind = "return"
                   THEN Defaults(out.value.fields.items) ELSE log
         /\ result' = [op |-> "form", name |-> name, out |-> out]
         /\ UNCHANGED <<cacheStore, now, api, lastSet, lastFetch,
                        clients, scope, tasks>>

NextApi ==
    \/ ApiInitCall
    \/ GetMasterCall
    \/ GetRefCall
    \/ ApiFormCall
    \/ Return

SpecApi == InitConn /\ [][NextApi]_vars

\* ------------------------------------------------- SearchForm, driven
MasterJson == RefJson("master", "r1", "Master", TRUE)
ReleaseJson == RefJson("release", "r3", "Release", FALSE)

FormApis ==
    {ApiInit(Description(<<MasterJson, ReleaseJson>>, fields), token,
             "Memory").value :
        fields \in {FieldsPlain, FieldsDefaults},
        token \in {None, StrV("tok")}}

SearchJson == DictV(<<KV("results", ListV(<<>>)),
                      KV("total_results_size", IntV(3))>>)

\* what the server answers a search with
FormResponses == {Response(200, SearchJson, "", EmptyDict),
                  Response(200, EmptyDict, "", EmptyDict),
                  Response(401, None, "", EmptyDict),
                  Response(404, None, "Not Found", EmptyDict)}

InitForm ==
    /\ cacheStore = EmptyStore
    /\ now = 0
    /\ api \in FormApis
    /\ form = ApiForm(api, "everything").value
    /\ log = Defaults(form.fields.items)
    /\ result = NoResult
    /\ lastSet = EmptyHistory
    /\ lastFetch = ""
    /\ clients = <<>>
    /\ scope = NoScope
    /\ tasks = <<>>

\* the caller may make another setter call on the form
MaySet ==
    /\ result = NoResult
    /\ Len(log) - Len(Defaults(form.fields.items)) < MaxCalls

Logged(field, value) == Append(log, [field |-> field, value |-> value])

\* form.ref(ref): ref is absent, a token, or a Ref of the Api
FormRefCall ==
    \E ref \in {None, StrV(""), StrV("a"), get_master(api)} :
      /\ MaySet
      /\ form' = FormSet(form, "ref", RefArg(ref))
      /\ log' = Logged("ref", RefArg(ref))
      /\ UNCHANGED <<cacheStore, now, api, result, lastSet, lastFetch,
                     clients, scope, tasks>>

\* form.query(*argv) with no argument or a query string
FormQueryCall ==
    \E argv \in {<<>>, <<StrV("[[x]]")>>, <<StrV("[[y]]")>>} :
      /\ MaySet
      /\ form' = query(form, argv)
      /\ log' = IF Len(argv) = 0 THEN log ELSE Logged("q", QueryText(argv))
      /\ UNCHANGED <<cacheStore, now, api, result, lastSet, lastFetch,
                     clients, scope, tasks>>

\* form.page_size(nb_results), and its alias form.pageSize
FormPageSizeCall ==
    \E nb_results \in {IntV(20)} :
      /\ MaySet
      /\ form' = FormSet(form, "pageSize", nb_results)
      /\ log' = Logged("pageSize", nb_results)
      /\ UNCHANGED <<cacheStore, now, api, result, lastSet, lastFetch,
                     clients, scope, tasks>>

\* form.page(page_number)
FormPageCall ==
    \E page_number \in {IntV(2)} :
      /\ MaySet
      /\ form' = FormSet(form, "page", page_number)
      /\ log' = Logged("page", page_number)
      /\ UNCHANGED <<cacheStore, now, api, result, lastSet, lastFetch,
                     clients, scope, tasks>>

\* await form.submit()
SubmitCall ==
    \E net \in FormResponses :
      LET r == submit(form, cacheStore, now, net)
      IN /\ result = NoResult
         /\ cacheStore' = r.store
         /\ result' = [op |-> "submit", net |-> net, out |-> r.out,
                       reqs |-> r.reqs, full_url |-> r.full_url]
         /\ UNCHANGED <<now, api, form, lastSet, lastFetch, log,
                        clients, scope, tasks>>

\* await form.count()
CountCall ==
    \E net \in FormResponses :
      LET r == count(form, cacheStore, now, net)
      IN /\ result = NoResult
         /\ cacheStore' = r.store
         /\ form' = CountForms(form).self
         /\ result' = [op |-> "count", net |-> net, out |-> r.out,
                       reqs |-> r.reqs, full_url |-> r.full_url,
                       self_before |-> form, cp |-> CountForms(form).cp]
         /\ UNCHANGED <<now, api, lastSet, lastFetch, log, clients, scope, tasks>>

NextForm ==
    \/ FormRefCall
    \/ FormQueryCall
    \/ FormPageSizeCall
    \/ FormPageCall
    \/ SubmitCall
    \/ CountCall
    \/ Return

SpecForm == InitForm /\ [][NextForm]_vars

\* ------------------------------------------------- Api queries, driven
PlainJson == DictV(<<KV("id", StrV("plain")), KV("ref", StrV("r4")),
                     KV("label", StrV("Plain"))>>)

\* Api objects of repositories with and without a master ref
QueryApis ==
    {ApiInit(Description(refs, fields), token, "Memory").value :
        refs \in {<<>>, <<ReleaseJson>>, <<ReleaseJson, PlainJson>>,
                  <<MasterJson, ReleaseJson>>},
        fields \in {FieldsPlain, FieldsDefaults},
        token \in {None, StrV("tok")}}

TextFragmentJson(text) ==
    DictV(<<KV("type", StrV("Text")), KV("value", TextV(text))>>)

\* the JSON of a document of type "page" with one text field
DocJson(id) ==
    DictV(<<KV("id", StrV(id)), KV("type", StrV("page")),
            KV("slugs", ListV(<<StrV("a%20slug")>>)),
            KV("data", DictV(<<KV("page",
                DictV(<<KV("title", TextFragmentJson(<<"H", "i">>))>>))>>))>>)

FoundJson == DictV(<<KV("results", ListV(<<DocJson("d1")>>)),
                     KV("total_results_size", IntV(1))>>)

NotFoundJson == DictV(<<KV("results", ListV(<<>>)),
                        KV("total_results_size", IntV(0))>>)

\* what the server answers a search with
SearchResponses == {Response(200, FoundJson, "", EmptyDict),
                    Response(200, NotFoundJson, "", EmptyDict),
                    Response(401, None, "", EmptyDict),
                    Response(404, None, "Not Found", EmptyDict)}

PreviewToken == StrV("http://repo/previews/tok")

\* what the server answers the fetch of a preview token with
PreviewResponses ==
    {Response(200, DictV(<<KV("mainDocument", StrV("d1"))>>), "", EmptyDict),
     Response(200, EmptyDict, "", EmptyDict),
     Response(404, None, "Not Found", EmptyDict)}

\* the refs a caller gives: none, a token, a Ref of the Api
QueryRefs(a) == {None, StrV("r3")} \cup {a.refs[i] : i \in 1..Len(a.refs)}

TypeA == TextV(<<"a">>)
PathTitle == TextV(MyDot \o <<"a", ".", "t">>)
PathType == TextV(DocumentDot \o <<"t", "y", "p", "e">>)

\* the predicates given to Api.query
QueryPredicates == {at(PathTitle, IntV(3)),
                    any(PathType, ListV(<<TextV(<<"a">>), TextV(<<"b">>)>>))}

InitQuery ==
    /\ cacheStore = EmptyStore
    /\ now = 0
    /\ api \in QueryApis
    /\ form = None
    /\ log = <<>>
    /\ result = NoResult
    /\ lastSet = EmptyHistory
    /\ lastFetch = ""
    /\ clients = <<>>
    /\ scope = NoScope
    /\ tasks = <<>>

\* what a query call was given and what it did
QueryResult(op, ref, net, r) ==
    [op |-> op, ref |-> ref, ref_passed |-> RefArg(QueryRef(api, ref)),
     net |-> net, out |-> r.out, reqs |-> r.reqs, full_url |-> r.full_url]

\* the call leaves everything but the cache store and the result as it was
QueryDone(op, ref, net, r) ==
    /\ result = NoResult
    /\ cacheStore' = r.store
    /\ result' = QueryResult(op, ref, net, r)
    /\ UNCHANGED <<now, api, form, lastSet, lastFetch, log, clients, scope, tasks>>

\* await api.query(q, ref, page_size=...)
ApiQueryCall ==
    \E q \in QueryPredicates, ref \in QueryRefs(api),
       page_size \in {None, IntV(20)}, net \in SearchResponses :
      QueryDone("query", ref, net,
                ApiQuery(api, QueryArgs(q, ref, page_size, None, None, None,
                                        None), cacheStore, now, net))

\* await api.query_first(q, ref)
QueryFirstCall ==
    \E q \in QueryPredicates, ref \in QueryRefs(api), net \in SearchResponses :
      QueryDone("query_first", ref, net,
                query_first(api, q, ref, cacheStore, now, net))

\* await api.get_by_uid(type, uid, ref)
GetByUidCall ==
    \E ref \in QueryRefs(api), net \in SearchResponses :
      QueryDone("get_by_uid", ref, net,
                get_by_uid(api, TypeA, TextV(<<"u">>), ref, cacheStore, now,
                           net))

\* await api.get_by_id(id, ref)
GetByIdCall ==
    \E ref \in QueryRefs(api), net \in SearchResponses :
      QueryDone("get_by_id", ref, net,
                get_by_id(api, StrV("d1"), ref, cacheStore, now, net))

\* await api.get_by_ids(ids, ref, page=...)
GetByIdsCall ==
    \E ref \in QueryRefs(api), page \in {None, IntV(2)},
       net \in SearchResponses :
      QueryDone("get_by_ids", ref, net,
                get_by_ids(api, ListV(<<StrV("d1"), StrV("d2")>>),
                           QueryArgs(None, ref, None, page, None, None, None),
                           cacheStore, now, net))

\* await api.get_single(type, ref)
GetSingleCall ==
    \E ref \in QueryRefs(api), net \in SearchResponses :
      QueryDone("get_single", ref, net,
                get_single(api, TextV(<<"p", "a", "g", "e">>), ref,
                           cacheStore, now, net))

\* await api.preview_session(token, link_resolver, default_url)
PreviewSessionCall ==
    \E net1 \in PreviewResponses, net2 \in SearchResponses :
      \E r \in {preview_session(api, PreviewToken, StrV("/"), cacheStore, now,
                                net1, net2)} :
         /\ result = NoResult
         /\ cacheStore' = r.store
         /\ result' = [op |-> "preview_session", token |-> PreviewToken,
                       default_url |-> StrV("/"), net1 |-> net1,
                       net2 |-> net2, out |-> r.out, reqs |-> r.reqs]
         /\ UNCHANGED <<now, api, form, lastSet, lastFetch, log, clients,
                        scope, tasks>>

NextQuery ==
    \/ ApiQueryCall
    \/ QueryFirstCall
    \/ GetByUidCall
    \/ GetByIdCall
    \/ GetByIdsCall
    \/ GetSingleCall
    \/ PreviewSessionCall
    \/ Return

SpecQuery == InitQuery /\ [][NextQuery]_vars

\* ------------------------------------------------- experiments, driven
GoogleG == TextV(<<"G">>)
GoogleK == TextV(<<"K">>)

\* the experiments of test_experiments.py, and a repository that runs two
\* experiments, one of them with no google id
ExperimentSets ==
    {Experiments(
        <<Experiment("d1", TextV(<<"D">>),
                     <<Variation("a", "Base", "rD0")>>)>>,
        <<Experiment("e1", GoogleG,
                     <<Variation("a", "Base", "rG0"),
                       Variation("b", "var 1", "rG1")>>)>>),
     Experiments(
        <<>>,
        <<Experiment("e0", None, <<Variation("a", "Base", "rN0")>>),
          Experiment("e2", GoogleK, <<Variation("a", "Base", "rK0")>>),
          Experiment("e1", GoogleG,
                     <<Variation("a", "Base", "rG0"),
                       Variation("b", "var 1", "rG1")>>)>>),
     Experiments(<<>>, <<>>)}

CookieTokens == {"G", "K", "D", "%20", " ", "0", "1", "2", "-"}

Cookies == {TextV(toks) : toks \in SeqsUpTo(CookieTokens, MaxCookieLen)}

\* experiments.ref_from_cookie(cookie)
RefFromCookieCall ==
    /\ result = NoResult
    /\ \E exps \in ExperimentSets, cookie \in Cookies :
         result' = [op |-> "ref_from_cookie", experiments |-> exps,
                    cookie |-> cookie, out |-> ref_from_cookie(exps, cookie)]
    /\ UNCHANGED <<cacheStore, now, api, form, lastSet, lastFetch, log,
                   clients, scope, tasks>>

\* experiments.current()
CurrentCall ==
    \E exps \in ExperimentSets :
      /\ result = NoResult
      /\ result' = [op |-> "current", experiments |-> exps,
                    value |-> current(exps)]
      /\ UNCHANGED <<cacheStore, now, api, form, lastSet, lastFetch, log,
                     clients, scope, tasks>>

NextExp ==
    \/ RefFromCookieCall
    \/ CurrentCall
    \/ Return

SpecExp == InitConn /\ [][NextExp]_vars

\* ---------------------------------------------- predicate queries, driven
\* string operands: field paths, near misses of field paths, plain texts
StringOperands ==
    {TextV(MyDot \o <<"a">>), TextV(MyDot), TextV(<<"m", "y">>),
     TextV(DocumentWord), TextV(DocumentDot \o <<"i", "d">>),
     TextV(DocumentWord \o <<"s">>), TextV(<<"X">>), TextV(<<>>)}

ScalarOperands == StringOperands \cup {IntV(4), IntV(10), BoolV(TRUE), None}

ListOperands ==
    {ListV(xs) : xs \in SeqsUpTo({TextV(<<"X">>), PathTitle, IntV(4)}, 2)}
    \cup {ListV(<<ListV(<<IntV(4), TextV(<<"X">>)>>), TextV(DocumentWord)>>),
          TupleV(<<IntV(4), ListV(<<>>)>>)}

Operands == ScalarOperands \cup ListOperands

\* query(p) with one predicate: every operand in second place, and the
\* predicates of one and of three operands
SinglePredicates ==
    {at(PathTitle, operand) : operand \in Operands}
    \cup {TupleV(<<StrV("has")>>), TupleV(<<StrV("has"), PathTitle>>),
          TupleV(<<StrV("number.inRange"), PathTitle, IntV(4), IntV(10)>>),
          similar(TextV(<<"X">>), IntV(10))}

\* query(p1, ..., pn) with several predicates
ChainedPredicates ==
    {month_after(PathTitle, IntV(4)), month_before(PathTitle, TextV(<<"X">>)),
     any(PathType, ListV(<<TextV(<<"a">>), TextV(<<"b">>)>>))}

PredicateArgvs ==
    {<<predicate>> : predicate \in SinglePredicates}
    \cup (SeqsUpTo(ChainedPredicates, MaxPredicates) \ {<<>>})

\* an "everything" form and a form whose q has a default
FieldsQDefault ==
    DictV(<<KV("ref", Single),
            KV("q", DictV(<<KV("type", StrV("String")),
                            KV("multiple", BoolV(TRUE)),
                            KV("default", StrV("[[x]]"))>>))>>)

PredicateApis ==
    {ApiInit(Description(<<MasterJson>>, fields), None, "Memory").value :
        fields \in {FieldsPlain, FieldsQDefault}}

InitPred ==
    /\ cacheStore = EmptyStore
    /\ now = 0
    /\ api \in PredicateApis
    /\ form = ApiForm(api, "everything").value
    /\ log = Defaults(form.fields.items)
    /\ result = NoResult
    /\ lastSet = EmptyHistory
    /\ lastFetch = ""
    /\ clients = <<>>
    /\ scope = NoScope
    /\ tasks = <<>>

\* form.query(p1, ..., pn) with predicate tuples
PredicateQueryCall ==
    /\ result = NoResult
    /\ Len(log) - Len(Defaults(form.fields.items)) < MaxQueries
    /\ \E argv \in PredicateArgvs :
         /\ form' = query(form, argv)
         /\ log' = Logged("q", QueryText(argv))
         /\ result' = [op |-> "query", argv |-> argv, before |-> form,
                       after |-> query(form, argv)]
    /\ UNCHANGED <<cacheStore, now, api, lastSet, lastFetch, clients, scope, tasks>>

\* SearchForm._serialize(field)
SerializeCall ==
    /\ result = NoResult
    /\ \E field \in Operands :
         result' = [op |-> "_serialize", field |-> field,
                    text |-> serialize(field)]
    /\ UNCHANGED <<cacheStore, now, api, form, lastSet, lastFetch, log,
                   clients, scope, tasks>>

NextPred ==
    \/ PredicateQueryCall
    \/ SerializeCall
    \/ Return

SpecPred == InitPred /\ [][NextPred]_vars

\* ---------------------------------------------- StructuredText, driven
\* the JSON of a block of the given type with the given text and spans
BlockJson(type, text, spans) ==
    DictV(<<KV("type", StrV(type)), KV("text", TextV(text)),
            KV("spans", ListV(spans))>>)

EmbedJson ==
    DictV(<<KV("type", StrV("embed")),
            KV("oembed", DictV(<<KV("type", StrV("video")),
                                 KV("provider_name", StrV("P")),
                                 KV("embed_url", StrV("http://e")),
                                 KV("html", StrV("<i></i>"))>>))>>)

\* blocks to group: list items of both kinds, other blocks, an unknown type
BlockJsons ==
    {BlockJson(type, <<"E">>, <<>>) :
        type \in {"paragraph", "list-item", "o-list-item", "heading2",
                  "preformatted"}}
    \cup {EmbedJson}

BlockSeqs == SeqsUpTo(BlockJsons, MaxBlocks)

SpanJson(type, start, end) ==
    DictV(<<KV("type", StrV(type)), KV("start", IntV(start)),
            KV("end", IntV(end))>>
          \o (IF type = "label"
              THEN <<KV("data", DictV(<<KV("label", StrV("tip"))>>))>>
              ELSE IF type = "hyperlink"
              THEN <<KV("data", DictV(<<KV("type", StrV("Link.web")),
                        KV("value", DictV(<<KV("url", StrV("/x"))>>))>>))>>
              ELSE <<>>))

SpanText == <<"a", "&", "b">>

SpanKinds == {"em", "strong", "label", "hyperlink"}

\* spans within the text and spans that end or start beyond it, no two of
\* one kind
SpanJsons ==
    {SpanJson(type, start, end) :
        type \in SpanKinds, start \in 0..Len(SpanText),
        end \in 1..(Len(SpanText) + 1)}

DistinctKinds(spans) ==
    \A i, j \in 1..Len(spans) :
        i # j => DictGet(spans[i], "type") # DictGet(spans[j], "type")

WellFormed(span) == DictGet(span, "start").n < DictGet(span, "end").n

SpanSeqs ==
    {spans \in SeqsUpTo({span \in SpanJsons : WellFormed(span)}, MaxSpans) :
        DistinctKinds(spans)}

\* StructuredText(values).as_html(link_resolver)
AsHtmlCall ==
    /\ result = NoResult
    /\ \E values \in BlockSeqs :
         LET structured_text == StructuredText(values)
         IN result' = [op |-> "as_html", values |-> values,
                       blocks |-> structured_text.blocks,
                       groups |-> GroupBlocks(<<>>, structured_text.blocks),
                       html_list |-> HtmlList(structured_text),
                       out |-> as_html(structured_text)]
    /\ UNCHANGED <<cacheStore, now, api, form, lastSet, lastFetch, log,
                   clients, scope, tasks>>

\* StructuredText([paragraph]).as_html(link_resolver) for a paragraph with
\* spans
SpanAsHtmlCall ==
    /\ result = NoResult
    /\ \E spans \in SpanSeqs :
         LET structured_text ==
                StructuredText(<<BlockJson("paragraph", SpanText, spans)>>)
             block == structured_text.blocks[1]
         IN result' = [op |-> "span_as_html", text |-> block.text,
                       spans |-> block.spans,
                       content |-> span_as_html(block.text, block.spans),
                       out |-> as_html(structured_text)]
    /\ UNCHANGED <<cacheStore, now, api, form, lastSet, lastFetch, log,
                   clients, scope, tasks>>

NextText ==
    \/ AsHtmlCall
    \/ SpanAsHtmlCall
    \/ Return

SpecText == InitConn /\ [][NextText]_vars

\* ------------------------------------------------------ Document, driven
\* fragment JSON of recognized types, and of a type that is not in the table
RecognizedJsons ==
    {TextFragmentJson(<<"a", "&", "b">>),
     DictV(<<KV("type", StrV("Select")), KV("value", TextV(<<"s">>))>>),
     DictV(<<KV("type", StrV("Color")), KV("value", StrV("#ff0000"))>>),
     DictV(<<KV("type", StrV("StructuredText")),
             KV("value", ListV(<<BlockJson("list-item", <<"E">>, <<>>)>>))>>)}

UnrecognizedJsons ==
    {DictV(<<KV("type", StrV("Separator")), KV("value", StrV("x"))>>),
     DictV(<<KV("value", StrV("x"))>>)}

\* what a field of a document holds: one fragment, or a list of fragments
FieldValues ==
    RecognizedJsons \cup UnrecognizedJsons
    \cup {ListV(<<TextFragmentJson(<<"a">>),
                  DictV(<<KV("type", StrV("Separator")),
                          KV("value", StrV("x"))>>)>>)}

FieldNames == <<"f1", "f2", "f3", "f4">>

\* the JSON of a document of type "page" with the given values in its fields
PageJson(values) ==
    DictV(<<KV("id", StrV("d1")), KV("type", StrV("page")),
            KV("data", DictV(<<KV("page",
                DictV([i \in 1..Len(values) |->
                         KV(FieldNames[i], values[i])]))>>))>>)

PageJsons == {PageJson(values) : values \in SeqsUpTo(FieldValues, MaxFields)}
             \cup {DictV(<<KV("id", StrV("d1")), KV("type", StrV("page"))>>)}

\* doc = Document(data); doc.as_html(link_resolver)
DocumentCall ==
    /\ result = NoResult
    /\ \E data \in PageJsons :
         LET doc == Document(data)
         IN result' = [op |-> "Document", data |-> data, doc |-> doc,
                       html_list |-> SectionsHtml(doc.fragments.items),
                       html |-> document_as_html(doc)]
    /\ UNCHANGED <<cacheStore, now, api, form, lastSet, lastFetch, log,
                   clients, scope, tasks>>

\* doc.as_link() and doc.slug of a document
AsLinkCall ==
    /\ result = NoResult
    /\ \E data \in {DocJson("d1"), DocJson("d2"), PageJson(<<>>)} :
         LET doc == Document(data)
         IN result' = [op |-> "as_link", data |-> data, slug |-> Slug(doc),
                       link |-> as_link(doc)]
    /\ UNCHANGED <<cacheStore, now, api, form, lastSet, lastFetch, log,
                   clients, scope, tasks>>

NextDoc ==
    \/ DocumentCall
    \/ AsLinkCall
    \/ Return

SpecDoc == InitConn /\ [][NextDoc]_vars

\* ------------------------------------------------- HTTP clients, driven
\* what the server answers the fetch of the description with
DescriptionResponses(url) ==
    IF url = BadUrl THEN {InvalidURLRaised}
    ELSE {Response(200, Description(<<MasterJson>>, FieldsPlain), "",
                   EmptyDict),
          Response(200, EmptyDict, "", EmptyDict),
          Response(401, None, "", EmptyDict)}

\* what the server answers a search made inside the scope with
BodyResponses == {Response(200, FoundJson, "", EmptyDict),
                  Response(404, None, "Not Found", EmptyDict),
                  InvalidURLRaised}

InScope == scope.pos = "body"
Holding == scope.pos = "with_client"

\* the caller makes an httpx.AsyncClient of its own
MakeClient ==
    /\ result = NoResult
    /\ scope = NoScope
    /\ Len(clients) < MaxClients
    /\ clients' = Append(clients, NewClient("caller"))
    /\ UNCHANGED <<cacheStore, now, api, form, result, lastSet, lastFetch,
                   log, scope, tasks>>

\* entering `async with prismic.get(url, access_token) as api:`: the client
\* is made, the description fetched and the Api built; a failure of either
\* leaves the `async with` of get at once
GetEnter ==
    /\ result = NoResult
    /\ scope = NoScope
    /\ Len(clients) < MaxClients
    /\ \E url \in Urls, token \in {None, StrV("tok")} :
         \E net \in DescriptionResponses(url) :
           \E r \in {FetchApi(url, token, "None", cacheStore, now, net)},
              made \in {Append(clients, NewClient("library"))} :
           LET mine == Len(made)
               ok == r.out.kind = "return"
           IN /\ cacheStore' = r.store
              /\ clients' = IF ok THEN AfterRequests(made, mine, r.reqs, net)
                            ELSE ExitScope(AfterRequests(made, mine, r.reqs,
                                                         net), mine, "raise")
              /\ scope' = IF ok THEN [pos |-> "body", client |-> mine]
                          ELSE NoScope
              /\ api' = IF ok THEN r.out.value ELSE api
              /\ result' = [op |-> "get", client |-> mine, out |-> r.out,
                            reqs |-> r.reqs, how |-> IF ok THEN "yield"
                                                     ELSE "raise"]
    /\ UNCHANGED <<now, form, lastSet, lastFetch, log, tasks>>

\* a query awaited in the body of the scope or on an Api that
\* get_with_client gave: its requests go through the Api's client
ScopedQuery ==
    /\ result = NoResult
    /\ InScope \/ Holding
    /\ \E net \in BodyResponses, ref \in {None, StrV("r3")} :
         \E r \in {get_by_id(api, StrV("d1"), ref, cacheStore, now, net)} :
         \E after \in {AfterRequests(clients, scope.client, r.reqs, net)} :
            /\ Len(after) <= MaxClients
            /\ cacheStore' = r.store
            /\ clients' = after
            /\ result' = [op |-> "scoped_query", client |-> scope.client,
                          out |-> r.out, reqs |-> r.reqs,
                          how |-> r.out.kind]
    /\ UNCHANGED <<now, api, form, lastSet, lastFetch, log, scope, tasks>>

\* the body of the scope ends, by running to its end or by raising
LeaveScope ==
    /\ result = NoResult
    /\ InScope
    /\ \E how \in {"return", "raise"} :
         /\ clients' = ExitScope(clients, scope.client, how)
         /\ result' = [op |-> "leave", client |-> scope.client, how |-> how]
    /\ scope' = NoScope
    /\ UNCHANGED <<cacheStore, now, api, form, lastSet, lastFetch, log, tasks>>

\* api = await prismic.get_with_client(url, access_token, client=...): with
\* a client of the caller's, or with none (client 0)
GetWithClient ==
    /\ result = NoResult
    /\ scope = NoScope
    /\ \E url \in Urls, client \in 0..Len(clients) :
         \E net \in DescriptionResponses(url) :
           \E r \in {FetchApi(url, None, "None", cacheStore, now, net)} :
           \E after \in {AfterRequests(clients, client, r.reqs, net)} :
           LET ok == r.out.kind = "return"
           IN /\ client > 0 => (clients[client].by = "caller"
                                /\ clients[client].open)
              /\ Len(after) <= MaxClients
              /\ cacheStore' = r.store
              /\ clients' = after
              /\ scope' = IF ok THEN [pos |-> "with_client", client |-> client]
                          ELSE NoScope
              /\ api' = IF ok THEN r.out.value ELSE api
              /\ result' = [op |-> "get_with_client", client |-> client,
                            out |-> r.out, reqs |-> r.reqs,
                            how |-> r.out.kind]
    /\ UNCHANGED <<now, form, lastSet, lastFetch, log, tasks>>

\* the caller is done with the Api that get_with_client gave
Drop ==
    /\ result = NoResult
    /\ Holding
    /\ scope' = NoScope
    /\ UNCHANGED <<cacheStore, now, api, form, result, lastSet, lastFetch,
                   log, clients, tasks>>

NextClient ==
    \/ MakeClient
    \/ GetEnter
    \/ ScopedQuery
    \/ LeaveScope
    \/ GetWithClient
    \/ Drop
    \/ Return

SpecClient == InitConn /\ [][NextClient]_vars

\* ------------------------------------------------- requests, counted
\* calls of get_json that fail at the server, and one that the in-memory
\* cache answers when it is made again
RetryCalls ==
    StatusCalls \cup BadUrlCalls
    \cup {Call(GoodUrl, None, None, "Memory", IntV(2),
                Response(200, JsonA, "", EmptyDict))}

\* one call of get_json
FetchOnce ==
    /\ result = NoResult
    /\ \E c \in RetryCalls :
         \E r \in {get_json(c.url, c.params, c.access_token, c.cache, c.ttl,
                             cacheStore, now, c.net)} :
            /\ cacheStore' = r.store
            /\ result' = [op |-> "get_json", call |-> c, out |-> r.out,
                          reqs |-> r.reqs, full_url |-> r.full_url]
    /\ UNCHANGED <<now, api, form, lastSet, lastFetch, log, clients, scope, tasks>>

\* get_json called on its own, and forms given a ref and submitted
NextRetry ==
    \/ FetchOnce
    \/ FormRefCall
    \/ SubmitCall
    \/ Return

SpecRetry == InitForm /\ [][NextRetry]_vars

\* ------------------------------------------- SearchForm lifecycle, driven
\* await form.submit(); lastFetch keeps the URL of the last submit that was
\* answered, so that a later submit is seen next to an earlier one
SubmitLater ==
    /\ result = NoResult
    /\ \E net \in FormResponses :
         \E r \in {submit(form, cacheStore, now, net)} :
            /\ cacheStore' = r.store
            /\ result' = [op |-> "submit", net |-> net, out |-> r.out,
                          reqs |-> r.reqs, full_url |-> r.full_url,
                          data |-> form.data, earlier |-> lastFetch]
            /\ lastFetch' = IF r.out.kind = "return" THEN r.full_url
                            ELSE lastFetch
    /\ UNCHANGED <<now, api, form, lastSet, log, clients, scope, tasks>>

NextLife ==
    \/ FormRefCall
    \/ FormPageCall
    \/ SubmitLater
    \/ Return

SpecLife == InitForm /\ [][NextLife]_vars

\* ------------------------------------------ SearchForm frame, driven
\* what a call on the form found and what it did
FrameResult(op, net, r, first) ==
    [op |-> op, net |-> net, out |-> r.out, reqs |-> r.reqs,
     full_url |-> r.full_url, before |-> form, stored |-> cacheStore,
     first |-> first]

\* await form.submit()
SubmitFrame ==
    /\ result = NoResult
    /\ \E net \in FormResponses :
         \E r \in {submit(form, cacheStore, now, net)} :
            /\ cacheStore' = r.store
            /\ result' = FrameResult("submit", net, r, <<>>)
    /\ form' = FormAfterSubmit(form)
    /\ UNCHANGED <<now, api, lastSet, lastFetch, log, clients, scope, tasks>>

\* await form.submit() once more, right after a submit that made a request
SubmitAgain ==
    /\ result # NoResult
    /\ result.op = "submit"
    /\ Len(result.reqs) = 1
    /\ \E net \in FormResponses :
         \E r \in {submit(form, cacheStore, now, net)} :
            /\ cacheStore' = r.store
            /\ result' = FrameResult("submit_again", net, r, result.reqs)
    /\ form' = FormAfterSubmit(form)
    /\ UNCHANGED <<now, api, lastSet, lastFetch, log, clients, scope, tasks>>

\* await form.count(): the copy is submitted, the form stays
CountFrame ==
    /\ result = NoResult
    /\ \E net \in FormResponses :
         \E r \in {count(form, cacheStore, now, net)} :
            /\ cacheStore' = r.store
            /\ result' = FrameResult("count", net, r, <<>>)
    /\ form' = CountForms(form).self
    /\ UNCHANGED <<now, api, lastSet, lastFetch, log, clients, scope, tasks>>

NextFrame ==
    \/ FormRefCall
    \/ FormPageCall
    \/ SubmitFrame
    \/ SubmitAgain
    \/ CountFrame
    \/ Return

SpecFrame == InitForm /\ [][NextFrame]_vars

\* ------------------------------------------ concurrent get_json, driven
\* calls that differ in ref and in access token, all on the shared
\* in-memory cache, and one with a URL that httpx refuses
SharedCalls ==
    {[url |-> GoodUrl, params |-> p, access_token |-> token,
      cache |-> "Memory", ttl |-> None] :
        p \in {None, RefA}, token \in {None, StrV("tok")}}
    \cup {[url |-> BadUrl, params |-> None, access_token |-> None,
           cache |-> "Memory", ttl |-> None]}

\* the body the server sends to the GET of task i: no two GETs get the same
Body(i) == DictV(<<KV("serial", IntV(i))>>)

\* what the GET of task i can be answered with
TaskNets(i) ==
    IF tasks[i].call.url = BadUrl THEN {InvalidURLRaised}
    ELSE {Response(200, Body(i), "", CacheControl(<<"max-age=", "2">>)),
          Response(200, Body(i), "", EmptyDict),
          Response(401, None, "", EmptyDict),
          Response(404, None, "Not Found", EmptyDict)}

At(pc) == {i \in 1..Len(tasks) : tasks[i].pc = pc}

\* a caller awaits get_json(...): the call runs up to its first await
Begin ==
    /\ Len(tasks) < MaxTasks
    /\ \E c \in SharedCalls : tasks' = Append(tasks, Started(c))
    /\ UNCHANGED <<cacheStore, now, api, form, result, lastSet, lastFetch,
                   log, clients, scope>>

\* cache.get(full_url) answers one of the calls
Lookup ==
    /\ \E i \in At("lookup") :
         LET the_cache == ResolveCache(tasks[i].call.cache)
             cached == CacheGet(the_cache, cacheStore, tasks[i].full_url, now)
             st1 == CacheGetStore(the_cache, cacheStore, tasks[i].full_url,
                                  now)
         IN /\ cacheStore' = st1
            /\ tasks' = [tasks EXCEPT
                           ![i] = AfterLookup(tasks[i], cached, cacheStore,
                                              st1, now)]
    /\ UNCHANGED <<now, api, form, result, lastSet, lastFetch, log, clients,
                   scope>>

\* the GET of one of the calls is answered, or fails
Respond ==
    /\ \E i \in At("request") :
         \E net \in TaskNets(i) :
            tasks' = [tasks EXCEPT ![i] = AfterResponse(tasks[i], net)]
    /\ UNCHANGED <<cacheStore, now, api, form, result, lastSet, lastFetch,
                   log, clients, scope>>

\* cache.set(full_url, json_result, expire) of one of the calls is done
Store ==
    /\ \E i \in At("store") :
         /\ cacheStore' = StoreOn200(ResolveCache(tasks[i].call.cache),
                                     cacheStore, tasks[i].full_url,
                                     tasks[i].json_result, tasks[i].expire,
                                     now)
         /\ lastSet' = Remember(lastSet, TRUE, tasks[i].full_url,
                                tasks[i].json_result, tasks[i].expire.n, now)
         /\ tasks' = [tasks EXCEPT ![i] = AfterStore(tasks[i])]
    /\ UNCHANGED <<now, api, form, result, lastFetch, log, clients, scope>>

NextShared ==
    \/ Begin
    \/ Lookup
    \/ Respond
    \/ Store
    \/ Tick

SpecShared == InitConn /\ [][NextShared]_vars

\* --------------------------------------------------- ResultData, driven
GeoJson(latitude, longitude) ==
    DictV(<<KV("latitude", latitude), KV("longitude", longitude)>>)

ImageJson(url, alt) ==
    DictV(<<KV("url", StrV(url)),
            KV("dimensions",
               DictV(<<KV("width", IntV(20)), KV("height", IntV(10))>>)),
            KV("alt", alt)>>)

\* a key of the typed JSON with its value: values that are present and
\* falsy (an empty text, the number 0), JSON null, and a key that
\* ResultData does not declare
FieldJsons ==
    {KV("text", TextV(<<"a", "&", "b">>)), KV("text", TextV(<<>>)),
     KV("number", IntV(0)), KV("number", IntV(3)), KV("number", FloatV(35)),
     KV("color", StrV("#ff0000")), KV("select", None),
     KV("geopoint", GeoJson(FloatV(485), FloatV(25))),
     KV("image", ImageJson("http://i/1.png", None)),
     KV("extra", StrV("x"))}

\* JSON objects of up to MaxFields keys, in every order of the keys
ResultJsons ==
    {DictV(kvs) : kvs \in
        {s \in UNION {[1..n -> FieldJsons] : n \in 0..MaxFields} :
            \A i, j \in 1..Len(s) : i # j => s[i].k # s[j].k}}

\* ResultData(**data).as_html(link_resolver)
ResultDataCall ==
    /\ result = NoResult
    /\ \E data \in ResultJsons :
          result' = [op |-> "ResultData.as_html", json |-> data,
                     pieces |-> TypedSections(ResultData(data).fields),
                     html |-> ResultData_as_html(ResultData(data))]
    /\ UNCHANGED <<cacheStore, now, api, form, lastSet, lastFetch, log,
                   clients, scope, tasks>>

\* ------------------------------------------ legacy and typed, side by side
\* a field of a kind both models have, with its value
Payload(kind, value) == [kind |-> kind, value |-> value]

\* values of each kind: whole and fractional numbers, texts with and without
\* a character that HTML escapes, points on and off the equator, images with
\* and without an alternative text
Payloads ==
    {Payload("number", v) : v \in {IntV(0), IntV(3), FloatV(30), FloatV(35)}}
    \cup {Payload("color", StrV("#ff0000"))}
    \cup {Payload("text", TextV(chars)) :
            chars \in {<<>>, <<"a", "b">>, <<"a", "&", "b">>}}
    \cup {Payload("geopoint", GeoJson(lat, FloatV(25))) :
            lat \in {IntV(0), IntV(48), FloatV(485)}}
    \cup {Payload("image", ImageJson("http://i/1.png", alt)) :
            alt \in {None, StrV("logo")}}

\* the fragment JSON of the legacy shape: {"type": ..., "value": ...}
LegacyJson(p) ==
    LET type == CASE p.kind = "number" -> "Number"
                  [] p.kind = "color" -> "Color"
                  [] p.kind = "text" -> "Text"
                  [] p.kind = "image" -> "Image"
                  [] p.kind = "geopoint" -> "GeoPoint"
        value == IF p.kind = "image"
                 THEN DictV(<<KV("main", p.value), KV("views", EmptyDict)>>)
                 ELSE p.value
    IN DictV(<<KV("type", StrV(type)), KV("value", value)>>)

\* the record JSON of the typed shape: {kind: value}
TypedJson(p) == DictV(<<KV(p.kind, p.value)>>)

\* the typed field of the kind, as ResultData holds it
TypedField(p) ==
    LET fields == ResultData(TypedJson(p)).fields
    IN fields[CHOOSE i \in 1..Len(fields) : fields[i].k = p.kind].v

\* the legacy fragment's HTML and ResultData.fragment_to_html of the typed
\* field, for one payload
RenderBothCall ==
    /\ result = NoResult
    /\ \E p \in Payloads :
          result' = [op |-> "both", payload |-> p,
                     legacy |-> fragment_to_html(from_json(LegacyJson(p))),
                     typed |-> ResultData_fragment_to_html(p.kind,
                                                           TypedField(p))]
    /\ UNCHANGED <<cacheStore, now, api, form, lastSet, lastFetch, log,
                   clients, scope, tasks>>

NextTyped ==
    \/ ResultDataCall
    \/ RenderBothCall
    \/ Return

SpecTyped == InitConn /\ [][NextTyped]_vars

\* ================================================================ claims
\* the values the set calls logged for field were given, in call order
ValuesSet(field) ==
    LET calls == SelectSeq(log, LAMBDA c : c.field = field)
    IN [i \in 1..Len(calls) |-> calls[i].value]

\* C1: submit on a form on which no ref was set raises RefMissing; submit on
\* a form whose ref was set to a ref value (a token, empty or not, given as a
\* string or by a Ref) does not raise RefMissing.
C1_SubmitRaisesRefMissingIffNoRef ==
    result.op = "submit" =>
        LET refs == ValuesSet("ref")
        IN /\ Len(refs) = 0 => result.out = Raised("RefMissing", <<>>)
           /\ (Len(refs) > 0 /\ refs[Len(refs)] # None) =>
                result.out.exc # "RefMissing"

\* a submit that went through after ref("")
C1_Witness ==
    /\ result.op = "submit"
    /\ Len(ValuesSet("ref")) > 0
    /\ ValuesSet("ref")[Len(ValuesSet("ref"))] = StrV("")
    /\ result.out.kind = "return"

IsFetch == result.op = "get_json"

\* the call got as far as client.get and a response came back
GotResponse == IsFetch /\ Len(result.reqs) = 1
               /\ result.call.net # InvalidURLRaised

\* the in-memory cache held an unexpired entry for the call's full URL
HeldUnexpired ==
    /\ IsFetch
    /\ result.call.cache = "Memory"
    /\ result.full_url \in DOMAIN result.before
    /\ result.at <= result.before[result.full_url].expire

\* C2: when the cache holds an unexpired entry for the full request URL,
\* get_json returns that entry's JSON and client.get is not called.
C2_CachedEntryIsReturnedWithoutGet ==
    HeldUnexpired =>
        /\ result.out = Returned(result.before[result.full_url].value)
        /\ result.reqs = <<>>

\* a hit on an entry whose JSON is the empty object, under a token
C2_Witness ==
    /\ HeldUnexpired
    /\ result.call.access_token = StrV("tok")
    /\ result.out = Returned(EmptyDict)
    /\ result.reqs = <<>>

\* the TTL C3 states: ttl_override whenever one is given, else the max-age
C3_ClaimedTtl ==
    IF result.call.ttl # None THEN result.call.ttl
    ELSE get_max_age(result.call.net.headers)

\* C3: on a 200 the TTL is ttl_override whenever given, else the parsed
\* max-age; the JSON is stored under the full URL with that TTL iff a TTL
\* was determined, and is returned in both cases.
C3_TtlIsOverrideWheneverGiven ==
    (GotResponse /\ result.call.net.status = 200
       /\ result.call.cache = "Memory") =>
        /\ result.out = Returned(result.call.net.json)
        /\ C3_ClaimedTtl # None =>
             /\ result.full_url \in DOMAIN cacheStore
             /\ cacheStore[result.full_url] =
                  [value |-> result.call.net.json,
                   expire |-> result.at + C3_ClaimedTtl.n]
        /\ C3_ClaimedTtl = None => result.full_url \notin DOMAIN cacheStore

\* C4: on a 401 get_json raises AuthorizationNeeded when the token is empty
\* or absent, InvalidToken when it is non-empty, and nothing else.
C4_401RaisesAuthorizationOrInvalidToken ==
    (GotResponse /\ result.call.net.status = 401) =>
        result.out =
          IF result.call.access_token = None
             \/ result.call.access_token = StrV("")
          THEN Raised("AuthorizationNeededError", <<>>)
          ELSE Raised("InvalidTokenError", <<>>)

\* C5: on a status other than 200 and 401 get_json raises HTTPError with
\* that status code and the response's body text, and returns nothing.
C5_OtherStatusRaisesHttpError ==
    (GotResponse /\ result.call.net.status \notin {200, 401}) =>
        /\ result.out.kind = "raise"
        /\ result.out.exc = "HTTPError"
        /\ result.out.args = <<IntV(result.call.net.status),
                               StrV(result.call.net.text)>>

C5_Witness ==
    /\ GotResponse
    /\ result.call.net.status = 404
    /\ result.call.net.text = "Not Found"
    /\ result.out = Raised("HTTPError", <<IntV(404), StrV("Not Found")>>)

FormFields == {"ref", "q", "page", "pageSize"}

MarkedMultiple(field) ==
    Truthy(DictGet(DictGet(form.fields, field), "multiple"))

\* C6: after any setter calls, data[field] of a field marked multiple is the
\* list of all values set for it in call order, data[field] of any other
\* field is the value of the last call, and data has one key per field set.
C6_MultipleAccumulatesOthersOverwrite ==
    /\ \A field \in FormFields :
         LET vals == ValuesSet(field)
         IN /\ Len(vals) = 0 => ~DictHas(form.data, field)
            /\ Len(vals) > 0 =>
                 /\ DictHas(form.data, field)
                 /\ DictGet(form.data, field) =
                      IF MarkedMultiple(field) THEN ListV(vals)
                      ELSE vals[Len(vals)]
    /\ DictLen(form.data) = Cardinality({log[i].field : i \in 1..Len(log)})

\* query called twice, and a page size set over its default
C6_Witness ==
    /\ DictGet(form.data, "q") = ListV(<<StrV("[[x]]"), StrV("[[y]]")>>)
    /\ ValuesSet("pageSize") = <<StrV("20"), IntV(20)>>
    /\ DictGet(form.data, "pageSize") = IntV(20)

\* C7: count() submits a copy of the form that differs from it only in a
\* page size of 1, and leaves the form's data, fields, action, method and
\* enctype as they were, whether it returns or fails.
C7_CountSubmitsCopyAndLeavesForm ==
    result.op = "count" =>
        /\ form = result.self_before
        /\ DictGet(result.cp.data, "pageSize") = IntV(1)
        /\ \A field \in FormFields \ {"pageSize"} :
             /\ DictGet(result.cp.data, field) = DictGet(form.data, field)
             /\ DictHas(result.cp.data, field) = DictHas(form.data, field)
        /\ result.cp.action = form.action
        /\ result.cp.method = form.method
        /\ result.cp.enctype = form.enctype
        /\ result.cp.fields = form.fields
        /\ Len(result.reqs) = 1 =>
             result.reqs[1] =
               FullUrl(form.action.s,
                       FullParams(result.cp.data, form.access_token))

\* a count that returned on a form whose caller had set a page size of 20
C7_Witness ==
    /\ result.op = "count"
    /\ result.out = Returned(IntV(3))
    /\ ValuesSet("pageSize") # <<>>
    /\ DictGet(form.data, "pageSize") = IntV(20)

\* C8: a get on the in-memory cache made before the ttl of the latest set on
\* that key has run out returns that set's value (so a later set overwrites
\* an earlier one); a get made after it has run out returns absent.
C8_MemoryGetAfterSet ==
    /\ (result.op = "memory.get" /\ result.key \in DOMAIN lastSet) =>
         LET h == lastSet[result.key]
         IN /\ result.at < h.at + h.ttl => result.value = h.value
            /\ result.at > h.at + h.ttl => result.value = None
    /\ result.op = "memory.set" =>
         /\ result.key \in DOMAIN cacheStore
         /\ cacheStore[result.key].value = result.value

\* a get that returns the value of a set that replaced a live entry
C8_Witness ==
    /\ result.op = "memory.get"
    /\ result.key \in DOMAIN lastSet
    /\ result.at < lastSet[result.key].at + lastSet[result.key].ttl
    /\ lastSet[result.key].at > 0
    /\ result.value = StrV("bar")

\* C9: get on the no-op cache returns absent after any sets and gets, and a
\* get_json called without a cache calls client.get on every call.
C9_NoCacheNeverAnswers ==
    /\ result.op = "nocache.get" => result.value = None
    /\ (IsFetch /\ result.call.cache = "None") =>
         /\ result.reqs = <<result.full_url>>
         /\ cacheStore = result.before

\* a fetch without a cache of a URL that such a fetch already got with a TTL
C9_Witness ==
    /\ IsFetch
    /\ result.call.cache = "None"
    /\ result.again
    /\ result.reqs = <<result.full_url>>

Flagged(r) == r.is_master_ref = BoolV(TRUE)

\* C10: Api construction succeeds on every references list, and get_master()
\* returns the first Reference in list order whose master flag is set, or
\* absent when none has it.
C10_MasterIsFirstFlaggedRef ==
    /\ (result.op = "Api" /\ DictGet(result.data, "refs").ty = "list") =>
         LET given == DictGet(result.data, "refs").items
         IN /\ result.out.kind = "return"
            /\ Len(result.out.value.refs) = Len(given)
            /\ \A i \in 1..Len(given) :
                 /\ result.out.value.refs[i].ref = DictGet(given[i], "ref")
                 /\ result.out.value.refs[i].id = DictGet(given[i], "id")
    /\ result.op = "get_master" =>
         /\ \A i \in 1..Len(api.refs) :
              (Flagged(api.refs[i])
                 /\ \A j \in 1..(i - 1) : ~Flagged(api.refs[j])) =>
                  result.value = api.refs[i]
         /\ (\A i \in 1..Len(api.refs) : ~Flagged(api.refs[i])) =>
              result.value = None

\* get_master() on an Api with two flagged References
C10_Witness ==
    /\ result.op = "get_master"
    /\ Len(api.refs) = 2
    /\ Flagged(api.refs[1])
    /\ Flagged(api.refs[2])
    /\ api.refs[1] # api.refs[2]
    /\ result.value = api.refs[1]

\* the calls of the Api that fall back on the master ref
MasterDependent == {"query", "query_first", "get_by_uid", "get_by_id",
                    "get_by_ids", "get_single"}

\* C11: on an Api whose description has no master ref, each of query,
\* query_first, get_by_uid, get_by_id, get_by_ids and get_single called with
\* no ref hands an absent ref to the form and raises RefMissing at submit,
\* before any request and with no other kind of error.
C11_NoMasterNoRefRaisesRefMissing ==
    (/\ result.op \in MasterDependent
     /\ get_master(api) = None
     /\ result.ref = None)
    => /\ result.ref_passed = None
       /\ result.out = Raised("RefMissing", <<>>)
       /\ result.reqs = <<>>

\* get_by_ids with no ref on an Api that has refs, none of them the master
C11_Witness ==
    /\ result.op = "get_by_ids"
    /\ result.ref = None
    /\ get_master(api) = None
    /\ Len(api.refs) > 0
    /\ result.out.exc = "RefMissing"

\* the preview JSON came back and names a main document
NamesMain == /\ result.net1.status = 200
             /\ DictGet(result.net1.json, "mainDocument") # None

\* C12: preview_session returns default_url when the preview JSON names no
\* main document, returns default_url when the search for the named document
\* with the token as ref finds nothing, and returns the resolver's URL of the
\* document's link when it is found.
C12_PreviewFallsBackToDefaultUrl ==
    result.op = "preview_session" =>
        /\ (result.net1.status = 200 /\ ~NamesMain)
              => result.out = Returned(result.default_url)
        /\ (NamesMain /\ result.net2.json = NotFoundJson)
              => result.out = Returned(result.default_url)
        /\ (NamesMain /\ result.net2.json = FoundJson)
              => result.out = Returned(StrV("/doc/d1"))

\* a decimal numeral, with or without a minus sign
IsNumeral(n) ==
    LET digits == IF Len(n) > 0 /\ n[1] = "-" THEN Tail(n) ELSE n
    IN Len(digits) > 0 /\ \A i \in 1..Len(digits) : IsDigit(digits[i])

NumeralValue(n) ==
    IF n[1] = "-" THEN 0 - ParseInt(Tail(n), 0) ELSE ParseInt(n, 0)

\* the decoded cookie reads "<google id of e> <numeral>" with the blank at
\* position k, and the numeral is an index into the variations of e
Names(cookie, e, k) ==
    LET decoded == UnquoteCookie(cookie.items)
        n == SubSeq(decoded, k + 1, Len(decoded))
    IN /\ e.google_id # None
       /\ decoded[k] = " "
       /\ SubSeq(decoded, 1, k - 1) = e.google_id.items
       /\ IsNumeral(n)
       /\ NumeralValue(n) >= 0
       /\ NumeralValue(n) < Len(e.variations)

\* the refs the claim allows for the cookie: the variation at the index the
\* cookie names, of a running experiment whose google id it names
AllowedRefs(exps, cookie) ==
    {exps.running[p[1]].variations[
            NumeralValue(SubSeq(UnquoteCookie(cookie.items), p[2] + 1,
                                Len(cookie.items))) + 1].ref :
        p \in {q \in (1..Len(exps.running)) \X (1..Len(cookie.items)) :
                 Names(cookie, exps.running[q[1]], q[2])}}

\* C13: ref_from_cookie gives the ref of variation number index of the
\* running experiment whose google id is the cookie's first token exactly
\* when the decoded cookie reads "<googleId> <index>" with an integer index
\* within the variations; in every other case it gives None; it never
\* raises.
C13_RefFromCookie ==
    result.op = "ref_from_cookie" =>
        LET allowed == AllowedRefs(result.experiments, result.cookie)
        IN /\ result.out.kind = "return"
           /\ IF allowed = {} THEN result.out.value = None
              ELSE result.out.value \in allowed

\* the cookie G%201 resolved to the second variation of G
C13_Witness ==
    /\ result.op = "ref_from_cookie"
    /\ result.cookie.items = <<"G", "%20", "1">>
    /\ result.out = Returned(StrV("rG1"))

\* the q values of a form, in order
QList(f) == IF DictHas(f.data, "q") THEN DictGet(f.data, "q").items ELSE <<>>

\* "[:d = op(args)]" for predicate p, the args joined by ", "
ClauseText(p) ==
    LET args == [i \in 1..(Len(p.items) - 1) |-> serialize(p.items[i + 1])]
    IN "[:d = " \o p.items[1].s \o "(" \o JoinComma(args) \o ")]"

\* C14: query(p1, ..., pn) with n >= 1 predicate tuples appends exactly one
\* string to the form's q: "[", then the n clauses "[:d = op(args)]" in the
\* order given with nothing between them, then "]".
C14_QueryAppendsOneBracketedString ==
    result.op = "query" =>
        LET n == Len(result.argv)
            clauses == [i \in 1..n |-> ClauseText(result.argv[i])]
        IN QList(result.after) =
              Append(QList(result.before),
                     StrV("[" \o Concat(clauses) \o "]"))

\* test_multiple_predicates: two clauses, back to back, after a default q
C14_Witness ==
    /\ result.op = "query"
    /\ QList(result.before) = <<StrV("[[x]]")>>
    /\ QList(result.after) =
         <<StrV("[[x]]"),
           StrV("[[:d = date.month-after(my.a.t, 4)]"
                \o "[:d = date.month-before(my.a.t, \"X\")]]")>>

\* the characters of the string begin with those of prefix
Begins(chars, prefix) ==
    /\ Len(chars) >= Len(prefix)
    /\ \A i \in 1..Len(prefix) : chars[i] = prefix[i]

\* C15: a string operand is emitted as it is exactly when it starts with
\* "my." or "document." or is "document", and in double quotes otherwise; a
\* list or tuple is emitted as "[", its items serialized the same way and
\* joined by ", ", and "]"; any other operand is emitted as its str().
C15_OperandSerialization ==
    result.op = "_serialize" =>
        LET field == result.field
            path == \/ Begins(field.items, <<"m", "y", ".">>)
                    \/ Begins(field.items, <<"d", "o", "c", "u", "m", "e",
                                             "n", "t", ".">>)
                    \/ field.s = "document"
        IN CASE field.ty = "str" ->
                  /\ path => result.text = field.s
                  /\ ~path => result.text = "\"" \o field.s \o "\""
             [] field.ty \in {"list", "tuple"} ->
                  result.text =
                    "[" \o JoinComma([i \in 1..Len(field.items) |->
                                        serialize(field.items[i])]) \o "]"
             [] OTHER -> result.text = field.s

\* a nested list is serialized item by item, its strings quoted or not
C15_Witness ==
    /\ result.op = "_serialize"
    /\ result.field.ty = "list"
    /\ result.text = "[[4, \"X\"], document]"

\* the blocks of the groups, one after the other
RECURSIVE Flatten(_)
Flatten(groups) ==
    IF Len(groups) = 0 THEN <<>>
    ELSE groups[1].blocks \o Flatten(Tail(groups))

\* the wrapper a block belongs in: "ul", "ol", or "" for a block that is no
\* list item
Wrapper(block) ==
    IF block.ty # "ListItem" THEN ""
    ELSE IF block.is_ordered THEN "ol" ELSE "ul"

\* the number of maximal runs of consecutive blocks that belong in wrapper
Runs(blocks, wrapper) ==
    Cardinality({i \in 1..Len(blocks) :
                    /\ Wrapper(blocks[i]) = wrapper
                    /\ (i = 1 \/ Wrapper(blocks[i - 1]) # wrapper)})

Count(pieces, piece) ==
    Cardinality({i \in 1..Len(pieces) : pieces[i] = piece})

\* C16: the groups of as_html hold the blocks in their order; a group is
\* either one block that is no list item, unwrapped, or a maximal run of list
\* items of one orderedness; the HTML has exactly one <ul>...</ul> per
\* maximal run of unordered items and one <ol>...</ol> per maximal run of
\* ordered items.
C16_ListItemsGroupedByRuns ==
    result.op = "as_html" =>
        LET groups == result.groups
        IN /\ Flatten(groups) = result.blocks
           /\ \A g \in 1..Len(groups) :
                 /\ Len(groups[g].blocks) > 0
                 /\ \A b \in 1..Len(groups[g].blocks) :
                       Wrapper(groups[g].blocks[b]) =
                          IF groups[g].tag = None THEN ""
                          ELSE groups[g].tag.s
                 /\ groups[g].tag = None => Len(groups[g].blocks) = 1
                 /\ (g > 1 /\ groups[g].tag # None)
                       => groups[g - 1].tag # groups[g].tag
           /\ \A w \in {"ul", "ol"} :
                 /\ Count(result.html_list, "<" \o w \o ">")
                       = Runs(result.blocks, w)
                 /\ Count(result.html_list, "</" \o w \o ">")
                       = Runs(result.blocks, w)

\* test_lists: an unordered list, a paragraph, an ordered list
C16_Witness ==
    /\ result.op = "as_html"
    /\ result.out = Returned(StrV(
          "<ul><li>E</li><li>E</li></ul><p>E</p><ol><li>E</li></ol>"))

\* where the piece is in the pieces (0 when it is not there)
Position(pieces, piece) ==
    IF \E i \in 1..Len(pieces) : pieces[i] = piece
    THEN CHOOSE i \in 1..Len(pieces) : pieces[i] = piece
    ELSE 0

OpeningOf(span) == span_write_tag(span, <<>>)[1]
ClosingOf(span) == span_write_tag(span, <<>>)[2]

\* C17: of two spans that start at the same offset, the longer one is opened
\* first and closed last: its tags enclose the tags of the shorter one.
C17_LongerSpanEnclosesShorter ==
    result.op = "span_as_html" =>
        /\ result.content.kind = "return"
        /\ \A i, j \in 1..Len(result.spans) :
              LET long == result.spans[i]
                  short == result.spans[j]
                  pieces == result.content.value.items
              IN (long.start = short.start /\ Length(long) > Length(short))
                 => /\ Position(pieces, OpeningOf(long)) > 0
                    /\ Position(pieces, OpeningOf(long))
                          < Position(pieces, OpeningOf(short))
                    /\ Position(pieces, ClosingOf(short))
                          < Position(pieces, ClosingOf(long))

\* test_spans: two spans with the same start, the shorter one given first
C17_Witness ==
    /\ result.op = "span_as_html"
    /\ Len(result.spans) = 2
    /\ result.spans[1].ty = "Em" /\ result.spans[2].ty = "Strong"
    /\ result.out = Returned(StrV("<p><strong><em>a</em>&amp;</strong>b</p>"))

\* the fields of the document's type, as the JSON gives them
PageFields(data) ==
    IF DictHas(data, "data")
    THEN DictGet(DictGet(data, "data"), "page").items ELSE <<>>

\* the fragment JSON names a type of the dispatch table
Recognized(value) ==
    /\ DictGet(value, "type").ty = "str"
    /\ DictGet(value, "type").s \in DOMAIN FragmentTypes

\* C18: a field whose fragment JSON has an unrecognized type has no key in
\* the document's field map and no <section> in the document's as_html; a
\* field of a recognized type has its fragment under its key.
C18_UnrecognizedFieldIsDropped ==
    result.op = "Document" =>
        \A i \in 1..Len(PageFields(result.data)) :
            LET field == PageFields(result.data)[i]
                key == "page." \o field.k
            IN /\ (field.v.ty = "dict" /\ ~Recognized(field.v))
                    => /\ ~DictHas(result.doc.fragments, key)
                       /\ Count(result.html_list,
                                "<section data-field=\"" \o key \o "\">") = 0
               /\ (field.v.ty = "dict" /\ Recognized(field.v))
                    => /\ DictGet(result.doc.fragments, key)
                             = from_json(field.v)
                       /\ Count(result.html_list,
                                "<section data-field=\"" \o key \o "\">") = 1

\* C19: a client the library made is open only while the scope of get that
\* made it is in its body: it is closed once the description fetch failed,
\* once the body ended or raised, and once the single request of a fetch
\* without a client is over; a client of the caller's is never closed.
C19_LibraryClientsAreReleased ==
    \A i \in 1..Len(clients) :
        /\ (clients[i].by = "library" /\ clients[i].open)
              => (scope.pos = "body" /\ scope.client = i)
        /\ clients[i].by = "caller" => clients[i].open

\* the body of a scope raised and its client is closed, next to a caller's
\* client that is still open
C19_Witness ==
    /\ result.op = "leave"
    /\ result.how = "raise"
    /\ ~clients[result.client].open
    /\ \E i \in 1..Len(clients) : clients[i].by = "caller" /\ clients[i].open

\* what client.get did for the call the result is of
NetOf(res) == IF res.op = "get_json" THEN res.call.net ELSE res.net

GetFailed(net) == net = InvalidURLRaised \/ net.status # 200

\* C20: a call of get_json makes at most one GET and a submit at most one
\* get_json (none when the ref is missing; the searches here are never in
\* the cache, so each get_json of a submit is one GET); a GET that fails,
\* by a 401, another status or an invalid URL, is raised to the caller
\* after that single request.
C20_NoAutomaticRetry ==
    result.op \in {"get_json", "submit"} =>
        /\ Len(result.reqs) <= 1
        /\ (result.op = "submit" /\ result.out = Raised("RefMissing", <<>>))
              => Len(result.reqs) = 0
        /\ (Len(result.reqs) > 0 /\ GetFailed(NetOf(result)))
              => (result.out.kind = "raise" /\ Len(result.reqs) = 1)

\* a submit whose one request was answered 404 and raised HTTPError
C20_Witness ==
    /\ result.op = "submit"
    /\ result.net.status = 404
    /\ result.out.kind = "raise"
    /\ result.out.exc = "HTTPError"
    /\ Len(result.reqs) = 1

\* the submit the result is of found no ref in the form's data
RefAbsent == DictGet(result.data, "ref") = None

\* every submit checks the ref of the data it is called on, whatever an
\* earlier submit did, and otherwise makes the one request req
SubmitsAnew(req) ==
    result.op = "submit" =>
        /\ result.data = form.data
        /\ RefAbsent => (result.out = Raised("RefMissing", <<>>)
                         /\ result.reqs = <<>>)
        /\ ~RefAbsent => result.reqs = <<req>>

Submitted == result.op \in {"submit", "submit_again"}

\* C28: a submit leaves the form's data as it was, without an access_token
\* entry even when the request carried the token, and a second submit of
\* the form as the first one left it requests the same full URL.
C28_SubmitLeavesFormData ==
    Submitted =>
        /\ form.data = result.before.data
        /\ ~DictHas(form.data, "access_token")
        /\ result.op = "submit_again" => result.reqs = result.first

\* a second submit of a form with an access token asked for the URL of the
\* first, which carries the token
C28_Witness ==
    /\ result.op = "submit_again"
    /\ form.access_token # None
    /\ result.reqs = result.first
    /\ result.reqs = <<form.action.s \o "?" \o
                         urlencode(DictUpdate(form.data, "access_token",
                                              form.access_token))>>

\* C30: a submit or a count that raises RefMissing has made no request and
\* built no URL to look up, and leaves the cache store and the form as they
\* were.
C30_RefMissingHasNoEffect ==
    (result.op \in {"submit", "submit_again", "count"}
       /\ result.out = Raised("RefMissing", <<>>)) =>
        /\ result.reqs = <<>>
        /\ result.full_url = ""
        /\ cacheStore = result.stored
        /\ form = result.before

\* a count on a form without a ref raised RefMissing and left the form
C30_Witness ==
    /\ result.op = "count"
    /\ result.out = Raised("RefMissing", <<>>)
    /\ DictGet(form.data, "ref") = None
    /\ form = result.before
    /\ result.reqs = <<>>

Done(i) == tasks[i].pc = "done"

\* the GET of task i was answered 200
Answered200(i) == tasks[i].net # NoNet /\ tasks[i].net.status = 200

\* C25: whatever the calls and however their steps interleave, every entry
\* of the cache under a URL is the body of a 200 answer to a GET of that
\* very URL, and a call that ended in an error has not changed what the
\* cache holds.
C25_CacheHoldsOnlyBodiesOf200 ==
    /\ \A key \in DOMAIN cacheStore :
          \E i \in 1..Len(tasks) :
             /\ tasks[i].full_url = key
             /\ Answered200(i)
             /\ tasks[i].net.json = cacheStore[key].value
    /\ \A i \in 1..Len(tasks) :
          (Done(i) /\ tasks[i].out.kind = "raise") => ~tasks[i].wrote

\* a call was answered 404 and raised while the cache holds the body that
\* another call of the same URL stored
C25_Witness ==
    \E i, j \in 1..Len(tasks) :
       /\ i # j
       /\ tasks[i].full_url = tasks[j].full_url
       /\ Done(i) /\ tasks[i].out.kind = "raise" /\ tasks[i].net.status = 404
       /\ tasks[j].full_url \in DOMAIN cacheStore
       /\ cacheStore[tasks[j].full_url].value = Body(j)

SameCall(i, j) ==
    /\ tasks[i].call.url = tasks[j].call.url
    /\ tasks[i].call.params = tasks[j].call.params
    /\ tasks[i].call.access_token = tasks[j].call.access_token

\* C26: calls that differ in access token or in a parameter use different
\* cache keys; the entry under a call's key was fetched by a call with the
\* same URL, parameters and token, and so was every value a call returns.
C26_CacheKeysAreSeparate ==
    \A i \in 1..Len(tasks) :
       /\ \A j \in 1..Len(tasks) :
             ~SameCall(i, j) => tasks[i].full_url # tasks[j].full_url
       /\ tasks[i].full_url \in DOMAIN cacheStore =>
             \E j \in 1..Len(tasks) :
                /\ SameCall(i, j)
                /\ Answered200(j)
                /\ cacheStore[tasks[i].full_url].value = tasks[j].net.json
       /\ (Done(i) /\ tasks[i].out.kind = "return") =>
             \E j \in 1..Len(tasks) :
                /\ SameCall(i, j)
                /\ Answered200(j)
                /\ tasks[i].out.value = tasks[j].net.json

\* two calls for the same ref, one with a token and one without, have each
\* stored their own body, and the cache holds both
C26_Witness ==
    \E i, j \in 1..Len(tasks) :
       /\ tasks[i].call.params = tasks[j].call.params
       /\ tasks[i].call.access_token = StrV("tok")
       /\ tasks[j].call.access_token = None
       /\ Done(i) /\ Done(j)
       /\ {tasks[i].full_url, tasks[j].full_url} \subseteq DOMAIN cacheStore
       /\ cacheStore[tasks[i].full_url].value = Body(i)
       /\ cacheStore[tasks[j].full_url].value = Body(j)

\* the lookup of task i found nothing and its GET has been answered
Missed(i) == tasks[i].pc # "lookup" /\ tasks[i].cached = None
OwnAnswer(i) == tasks[i].net # NoNet

\* C27: a call whose lookup missed makes a GET of its own, also when
\* another call of the same URL is under way; a call returns the entry the
\* cache held for its URL or the body of its own 200 answer; and an entry
\* of the cache is the value of the last store made under its URL.
C27_InterleavedFetches ==
    /\ \A i \in 1..Len(tasks) :
          /\ (Done(i) /\ Missed(i)) => OwnAnswer(i)
          /\ (Done(i) /\ tasks[i].out.kind = "return") =>
                IF Missed(i)
                THEN Answered200(i) /\ tasks[i].out.value = tasks[i].net.json
                ELSE /\ ~OwnAnswer(i)
                     /\ \E j \in 1..Len(tasks) :
                           /\ j # i
                           /\ tasks[j].full_url = tasks[i].full_url
                           /\ tasks[j].wrote
                           /\ tasks[i].out.value = tasks[j].json_result
    /\ \A key \in DOMAIN cacheStore :
          /\ key \in DOMAIN lastSet
          /\ cacheStore[key].value = lastSet[key].value
          /\ cacheStore[key].expire = lastSet[key].at + lastSet[key].ttl

\* two calls of one URL both missed, both were answered 200 and both
\* stored; the first call stored last, so the cache holds its body while
\* the second returned its own
C27_Witness ==
    /\ Len(tasks) = 2
    /\ tasks[1].full_url = tasks[2].full_url
    /\ Done(1) /\ Done(2)
    /\ Missed(1) /\ Missed(2)
    /\ tasks[1].wrote /\ tasks[2].wrote
    /\ cacheStore[tasks[1].full_url].value = Body(1)
    /\ tasks[2].out = Returned(Body(2))

\* a piece that is a letter of the text and not a tag
IsLetter(piece) == \E n \in 1..Len(SpanText) : piece = Escape(SpanText[n])

\* how many letters the pieces hold before position p
LettersBefore(pieces, p) ==
    Cardinality({q \in 1..(p - 1) : IsLetter(pieces[q])})

\* the offsets of the characters between the tags of span
WrappedBy(pieces, span) ==
    {LettersBefore(pieces, q) :
        q \in {q \in (Position(pieces, OpeningOf(span)) + 1)
                        ..(Position(pieces, ClosingOf(span)) - 1) :
                  IsLetter(pieces[q])}}

Crossing(s, t) ==
    \/ s.start < t.start /\ t.start < s.end /\ s.end < t.end
    \/ t.start < s.start /\ s.start < t.end /\ t.end < s.end

\* the spans lie on the text: none ends beyond it
OnTheText(spans, text) == \A i \in 1..Len(spans) : spans[i].end <= Len(text)

\* the tags of span wrap the characters at start..end-1, and span is closed
\* before the spans that start where it ends are opened
ClosedAtItsEnd(pieces, spans, span) ==
    /\ Position(pieces, OpeningOf(span)) > 0
    /\ WrappedBy(pieces, span) = span.start..(span.end - 1)
    /\ \A k \in 1..Len(spans) :
          spans[k].start = span.end =>
             Position(pieces, ClosingOf(span))
                < Position(pieces, OpeningOf(spans[k]))

\* C23: for spans on the text that nest or partly overlap, the spans closed at an
\* offset are the spans that end there, closed before the spans that start
\* there are opened, so that the tags of each span wrap the characters at
\* start..end-1.
C23_SpansCloseAtTheirEnd ==
    (result.op = "span_as_html" /\ OnTheText(result.spans, result.text)) =>
        /\ result.content.kind = "return"
        /\ \A i \in 1..Len(result.spans) :
              ClosedAtItsEnd(result.content.value.items, result.spans,
                             result.spans[i])

\* the same for spans of which no two cross
C23_NestedSpansCloseAtTheirEnd ==
    (result.op = "span_as_html"
       /\ OnTheText(result.spans, result.text)
       /\ \A i, j \in 1..Len(result.spans) :
             ~Crossing(result.spans[i], result.spans[j])) =>
        /\ result.content.kind = "return"
        /\ \A i \in 1..Len(result.spans) :
              ClosedAtItsEnd(result.content.value.items, result.spans,
                             result.spans[i])

\* the pieces that are not tags, in their order
Letters(pieces) == SelectSeq(pieces, IsLetter)

Occurrences(pieces, piece) ==
    Cardinality({q \in 1..Len(pieces) : pieces[q] = piece})

\* C29: for spans with 0 <= start < end, also ending or starting beyond
\* the text, no tag is closed while none is open (no IndexError), every
\* span that was opened is closed when the rendering ends, and the output
\* without its tags is the escaped characters of the text, in order, each
\* once.
C29_SpanRenderingKeepsText ==
    result.op = "span_as_html" =>
        /\ result.content.kind = "return"
        /\ Letters(result.content.value.items)
              = [k \in 1..Len(result.text) |-> Escape(result.text[k])]
        /\ \A i \in 1..Len(result.spans) :
              LET opened == IF result.spans[i].start < Len(result.text)
                            THEN 1 ELSE 0
              IN /\ Occurrences(result.content.value.items,
                                OpeningOf(result.spans[i])) = opened
                 /\ Occurrences(result.content.value.items,
                                ClosingOf(result.spans[i])) = opened

\* a span that ends beyond the text crosses one that ends within it: both
\* are closed and the text is whole
C29_Witness ==
    /\ result.op = "span_as_html"
    /\ Len(result.spans) = 2
    /\ result.spans[1].ty = "Em" /\ result.spans[1].start = 1
    /\ result.spans[1].end = Len(result.text) + 1
    /\ result.spans[2].ty = "Strong" /\ result.spans[2].start = 0
    /\ result.spans[2].end = 2
    /\ result.content
         = Returned(ListV(<<"<strong>", "a", "<em>", "&amp;", "</em>", "b",
                            "</strong>">>))

SectionOf(key) == "<section data-field=\"" \o key \o "\">"

\* the same JSON object with its keys in another order
Reordered(data) ==
    {DictV([i \in 1..Len(data.items) |-> data.items[p[i]]]) :
        p \in Permutations(1..Len(data.items))}

\* the sections of the output are in the order ResultData declares the
\* fields, whatever the order of the keys of the JSON
InDeclaredOrder(pieces, data) ==
    /\ \A p, q \in 1..Len(pieces) : \A i, j \in 1..Len(ResultDataFields) :
          /\ pieces[p] = SectionOf(ResultDataFields[i])
          /\ pieces[q] = SectionOf(ResultDataFields[j])
          /\ p < q
          => i < j
    /\ \A other \in Reordered(data) :
          TypedSections(ResultData(other).fields) = pieces

\* C24: ResultData.as_html has exactly one <section data-field=KEY> for
\* every declared field whose value is not absent (the JSON has the key with
\* a value that is not null) and none for a field whose value is absent, in
\* the order the fields are declared, whatever the order of the JSON's keys.
C24_OneSectionPerPresentField ==
    result.op = "ResultData.as_html" =>
        /\ \A i \in 1..Len(ResultDataFields) :
              Occurrences(result.pieces, SectionOf(ResultDataFields[i]))
                 = IF DictGet(result.json, ResultDataFields[i]) # None
                   THEN 1 ELSE 0
        /\ InDeclaredOrder(result.pieces, result.json)

\* C24, of the fields that pass `if fragment`: one section for every
\* declared field whose validated value is truthy and none for the others
\* (absent, null, an empty text, the number 0), in declaration order,
\* whatever the order of the JSON's keys
C24_OneSectionPerTruthyField ==
    result.op = "ResultData.as_html" =>
        /\ \A i \in 1..Len(ResultDataFields) :
              Occurrences(result.pieces, SectionOf(ResultDataFields[i]))
                 = IF Truthy(ResultData(result.json).fields[i].v)
                   THEN 1 ELSE 0
        /\ InDeclaredOrder(result.pieces, result.json)

\* C21: for every number, color, text, image and geopoint value, the legacy
\* fragment's HTML equals the HTML that ResultData.fragment_to_html gives
\* for the typed field of that kind.
C21_LegacyAndTypedRenderAlike ==
    result.op = "both" => result.legacy = result.typed

\* a value that both models format alike: a number with a fractional part,
\* a text without a character that HTML escapes and that is not empty, a
\* point with no coordinate equal to 0, any color and any image with a URL
FormatsAlike(p) ==
    CASE p.kind = "number" -> p.value.ty = "float" /\ p.value.n % 10 # 0
      [] p.kind = "text" ->
            /\ Len(p.value.items) > 0
            /\ \A i \in 1..Len(p.value.items) :
                  Escape(p.value.items[i]) = p.value.items[i]
      [] p.kind = "geopoint" ->
            /\ DictGet(p.value, "latitude").n # 0
            /\ DictGet(p.value, "longitude").n # 0
      [] OTHER -> TRUE

\* C21, of the values that both models format alike: the legacy fragment's
\* HTML equals the typed field's
C21_AlikeOnPlainValues ==
    (result.op = "both" /\ FormatsAlike(result.payload)) =>
        result.legacy = result.typed

====
